---- MODULE Spec2Model ----
(***************************************************************************)
(* A model of the photo date-watermark tool:                               *)
(*   src/src/exif_reader/exif_reader.py      (ExifReader)                  *)
(*   src/src/watermark/watermark_processor.py (WatermarkProcessor)         *)
(*                                                                         *)
(* Python strings are sequences of one-character strings, so that the      *)
(* parsing and formatting of dates is computed character by character.     *)
(* Python's None is the one-element sequence <<"None">>, which no string   *)
(* equals since every element of a string is a single character.           *)
(***************************************************************************)
EXTENDS Integers, Sequences, FiniteSets, TLC

VARIABLES
    platform,      \* what the interpreter offers: libraries installed, strftime flavour
    pc,            \* position of the running operation ("idle" between calls)
    op,            \* the public operation that was called
    date_str,      \* argument of _parse_date_string
    image_path,    \* the path argument: [name, exists, is_file]
    use_fallback,  \* argument of get_date_taken
    pilView,       \* what Pillow showed of the file in this call
    exView,        \* what exifread showed of the file in this call
    mtimeView,     \* what os.path.getmtime / datetime.fromtimestamp gave in this call
    consulted,     \* the sources the call has consulted so far, in order
    strategy,      \* what each consulted source yielded
    result,        \* the value the operation returned
    report,        \* the dict get_original_timestamp builds
    fs,            \* the output side of the filesystem
    log,           \* the log records of the call: <<level, message kind>>
    args,          \* the arguments of main, of a WatermarkConfig call
    config,        \* the WatermarkConfig object at hand
    yaml_file,     \* the YAML file save_to_yaml wrote
    batch,         \* process_directory: image_files, the loop, the counts;
                   \* the in-memory images drawn on
    exit_code,     \* the exit status of main
    processor      \* the WatermarkProcessor: show_watermark_info and the
                   \* instance field _current_timestamp_info

vars == <<platform, pc, op, date_str, image_path, use_fallback, pilView, exView,
          mtimeView, consulted, strategy, result, report, fs, log,
          args, config, yaml_file, batch, exit_code, processor>>

\* what the resolver and process_single_image leave alone
mainVars == <<args, config, yaml_file, batch, exit_code, processor>>

\* what WatermarkConfig, process_directory and main leave alone
resolverVars == <<date_str, image_path, use_fallback, pilView, exView, mtimeView,
                  consulted, strategy, report>>

----------------------------------------------------------------------------
(* Python values *)

None == <<"None">>

\* F(x) with x evaluated once, as Python evaluates the argument of a call
Apply(F(_), x) == CHOOSE r \in {F(v) : v \in {x}} : TRUE

\* bool(x) of an Optional[str]: None and "" are falsy
Truthy(s) == s # None /\ s # <<>>

Digits == {"0", "1", "2", "3", "4", "5", "6", "7", "8", "9"}

DigitVal(c) ==
    CASE c = "0" -> 0 [] c = "1" -> 1 [] c = "2" -> 2 [] c = "3" -> 3 [] c = "4" -> 4
      [] c = "5" -> 5 [] c = "6" -> 6 [] c = "7" -> 7 [] c = "8" -> 8 [] c = "9" -> 9

DigitChar(n) == CHOOSE c \in Digits : DigitVal(c) = n

AllDigits(s) == \A i \in 1..Len(s) : s[i] \in Digits

\* int(s) of a string of digits
IntOf(s) ==
    LET val[i \in 0..Len(s)] == IF i = 0 THEN 0 ELSE 10 * val[i - 1] + DigitVal(s[i])
    IN  val[Len(s)]

\* c in s
Contains(s, c) == \E i \in 1..Len(s) : s[i] = c

\* position of the first c in s, 0 when there is none
IndexOf(s, c) == IF Contains(s, c)
                 THEN CHOOSE i \in 1..Len(s) : s[i] = c /\ \A j \in 1..(i - 1) : s[j] # c
                 ELSE 0

\* s.split(c)[0]
SplitFirst(s, c) == IF Contains(s, c) THEN SubSeq(s, 1, IndexOf(s, c) - 1) ELSE s

\* s[:n]
Prefix(s, n) == SubSeq(s, 1, IF Len(s) < n THEN Len(s) ELSE n)

----------------------------------------------------------------------------
(* datetime.strptime / strftime, as _parse_date_string uses them *)

\* exceptions travel as values until a handler catches them
ValueError == <<"ValueError">>
OSError == <<"OSError">>
Exceptions == {ValueError, OSError}
Raised(x) == x \in Exceptions

\* the four formats of _parse_date_string: separator and field order
ExifFmt  == [sep |-> ":", order |-> "YMD"]
IsoFmt   == [sep |-> "-", order |-> "YMD"]
SlashFmt == [sep |-> "/", order |-> "YMD"]
DmyFmt   == [sep |-> "/", order |-> "DMY"]
OtherFormats == <<IsoFmt, SlashFmt, DmyFmt>>

\* %Y: exactly four digits
IsYearTok(f) == Len(f) = 4 /\ AllDigits(f)
\* %m: 1[0-2]|0[1-9]|[1-9]
IsMonthTok(f) ==
    \/ Len(f) = 1 /\ f[1] \in Digits \ {"0"}
    \/ Len(f) = 2 /\ AllDigits(f) /\ IntOf(f) \in 1..12
\* %d: 3[01]|[12]\d|0[1-9]|[1-9]| [1-9]
IsDayTok(f) ==
    \/ Len(f) = 1 /\ f[1] \in Digits \ {"0"}
    \/ Len(f) = 2 /\ AllDigits(f) /\ IntOf(f) \in 1..31
    \/ Len(f) = 2 /\ f[1] = " " /\ f[2] \in Digits \ {"0"}
DayVal(f) == IF f[1] = " " THEN DigitVal(f[2]) ELSE IntOf(f)

IsLeap(y) == (y % 4 = 0 /\ y % 100 # 0) \/ y % 400 = 0
DaysInMonth(y, m) ==
    IF m = 2 THEN (IF IsLeap(y) THEN 29 ELSE 28)
    ELSE IF m \in {4, 6, 9, 11} THEN 30 ELSE 31

NoMatch == [ok |-> FALSE]

\* the three fields of s around the first two separators
Fields(s, sep) ==
    IF ~Contains(s, sep) THEN <<>>
    ELSE Apply(LAMBDA rest :
                 IF ~Contains(rest, sep) THEN <<>>
                 ELSE <<SplitFirst(s, sep), SplitFirst(rest, sep),
                        SubSeq(rest, IndexOf(rest, sep) + 1, Len(rest))>>,
               SubSeq(s, IndexOf(s, sep) + 1, Len(s)))

\* datetime.strptime(s, fmt): a date [ok, y, m, d], or NoMatch for a ValueError
Strptime(s, fmt) ==
    Apply(LAMBDA f :
            IF f = <<>> THEN NoMatch
            ELSE LET yt == IF fmt.order = "YMD" THEN f[1] ELSE f[3]
                     mt == f[2]
                     dt == IF fmt.order = "YMD" THEN f[3] ELSE f[1]
                 IN  IF IsYearTok(yt) /\ IsMonthTok(mt) /\ IsDayTok(dt)
                     THEN LET y == IntOf(yt)
                              m == IntOf(mt)
                              d == DayVal(dt)
                          IN  IF y >= 1 /\ d <= DaysInMonth(y, m)
                              THEN [ok |-> TRUE, y |-> y, m |-> m, d |-> d]
                              ELSE NoMatch
                     ELSE NoMatch,
          Apply(LAMBDA str : Fields(str, fmt.sep), s))

Pad2(n) == <<DigitChar(n \div 10), DigitChar(n % 10)>>
Pad4(n) == <<DigitChar(n \div 1000), DigitChar((n \div 100) % 10),
             DigitChar((n \div 10) % 10), DigitChar(n % 10)>>
\* the decimal digits of n in 0..9999, no leading zeros
Decimal(n) ==
    LET width == IF n < 10 THEN 1 ELSE IF n < 100 THEN 2 ELSE IF n < 1000 THEN 3 ELSE 4
    IN  SubSeq(Pad4(n), 5 - width, 4)

\* %Y of strftime: four digits, zero padded, except where the C library's
\* strftime prints the year without padding (glibc)
YearText(y) == IF platform.padYear THEN Pad4(y) ELSE Decimal(y)

\* date_obj.strftime("%Y-%m-%d")
Strftime(date) == YearText(date.y) \o <<"-">> \o Pad2(date.m) \o <<"-">> \o Pad2(date.d)

\* lines 283-288: the first of the other formats that parses date_str[:10]
TryFormats(s, fmts) ==
    Apply(LAMBDA parses :
            IF parses = {} THEN None
            ELSE Strftime(Strptime(Prefix(s, 10),
                                   fmts[CHOOSE i \in parses : \A j \in parses : i <= j])),
          {i \in 1..Len(fmts) : Strptime(Prefix(s, 10), fmts[i]).ok})

\* lines 275-288: the body of the try block; a ValueError of the first
\* strptime leaves the block
ParseTryBlock(s) ==
    IF Contains(s, ":") /\ Contains(s, " ")
    THEN Apply(LAMBDA d : IF d.ok THEN Strftime(d) ELSE ValueError,
               Strptime(SplitFirst(s, " "), ExifFmt))
    ELSE TryFormats(s, OtherFormats)

\* no except clause: the exception leaves the function
Caught_Reraised(r) == r

\* an except clause that swallows the exception: the function goes on to
\* its final "return None"
Caught(r) == Apply(LAMBDA x : IF Raised(x) THEN None ELSE x, r)

\* ExifReader._parse_date_string
parse_date_string(s) ==
    Apply(LAMBDA str : IF ~Truthy(str) THEN None ELSE Caught(ParseTryBlock(str)), s)

----------------------------------------------------------------------------
(* What the libraries show of a file.  A Python dict is a function whose   *)
(* domain is the set of its keys.  A view is a local of the strategy that  *)
(* reads it: the state shows the view of the strategy that runs or that    *)
(* returned the date, and what an earlier strategy yielded is in           *)
(* "strategy".                                                             *)

Dicts(keys, values) == UNION {[D -> values] : D \in SUBSET keys}
Has(dict, key) == key \in DOMAIN dict
NonEmpty(dict) == DOMAIN dict # {}

\* "YYYY:MM:DD HH:MM:SS" as cameras write it
TimePart == <<" ", "1", "4", ":", "3", "0", ":", "4", "5">>
ExifText(y, m, d) == Pad4(y) \o <<":">> \o Pad2(m) \o <<":">> \o Pad2(d) \o TimePart

\* the values a date tag takes in the files of the model: two dates and
\* the all-zero value of a camera whose clock was never set
TagValues == {ExifText(2023, 8, 15), ExifText(2020, 1, 1), ExifText(0, 0, 0)}

\* Pillow tag ids (lines 132, 135, 145)
TagExifIFD == 34665
TagDateTimeOriginal == 36867
TagDateTimeDigitized == 36868
TagDateTime == 306

EmptyDict == CHOOSE d \in Dicts({}, {}) : TRUE

\* image.getexif() of a file Pillow opens: the top-level tags, with the
\* pointer to the Exif sub-block when the file has one
ExifDatas ==
    {d @@ ptr : d \in Dicts({TagDateTimeOriginal, TagDateTimeDigitized, TagDateTime},
                            TagValues),
                ptr \in {EmptyDict, TagExifIFD :> <<"8">>}}

\* exifdata.get_ifd(0x8769): the date tags of the Exif sub-block
ExifIFDs == Dicts({TagDateTimeOriginal, TagDateTimeDigitized}, TagValues)

NotReadPil == [read |-> FALSE, opens |-> FALSE, exifdata |-> EmptyDict,
               ifdRaises |-> FALSE, ifd |-> EmptyDict]

\* Image.open raises; or it gives exifdata, and get_ifd(0x8769) raises or
\* gives the sub-block, which has tags only if exifdata points to it
PilViews ==
    {[read |-> TRUE, opens |-> FALSE, exifdata |-> EmptyDict,
      ifdRaises |-> FALSE, ifd |-> EmptyDict]}
    \cup
    {v \in [read : {TRUE}, opens : {TRUE}, exifdata : ExifDatas,
            ifdRaises : BOOLEAN, ifd : ExifIFDs] :
        /\ v.ifdRaises => v.ifd = EmptyDict /\ NonEmpty(v.exifdata)
        /\ NonEmpty(v.ifd) => Has(v.exifdata, TagExifIFD)}

\* exifread tag names (lines 165-169, 245-249)
ExDateTimeOriginal == "EXIF DateTimeOriginal"
ExDateTimeDigitized == "EXIF DateTimeDigitized"
ExDateTime == "Image DateTime"
ExMake == "Image Make"

ExTags ==
    {d @@ make : d \in Dicts({ExDateTimeOriginal, ExDateTimeDigitized, ExDateTime},
                             TagValues),
                 make \in {EmptyDict, ExMake :> <<"C", "a", "n", "o", "n">>}}

NotReadEx == [read |-> FALSE, opens |-> FALSE, tags |-> EmptyDict]

\* open(...) or exifread.process_file raises, or gives the tags
ExViews ==
    {[read |-> TRUE, opens |-> FALSE, tags |-> EmptyDict]}
    \cup [read : {TRUE}, opens : {TRUE}, tags : ExTags]

\* the local dates a modification time falls on
MtimeDates == {[ok |-> TRUE, y |-> 2024, m |-> 2, d |-> 29],
               [ok |-> TRUE, y |-> 1999, m |-> 12, d |-> 31]}

NotReadMtime == [read |-> FALSE, raises |-> FALSE, date |-> NoMatch]

\* os.path.getmtime / datetime.fromtimestamp raise, or give a local time
MtimeViews ==
    {[read |-> TRUE, raises |-> TRUE, date |-> NoMatch]}
    \cup [read : {TRUE}, raises : {FALSE}, date : MtimeDates]

----------------------------------------------------------------------------
(* ExifReader: the extraction strategies *)

\* lines 135-140, 146-151: the first tag of the list that is in the dict and
\* whose value parses to a non-empty date
FirstParsed(dict, tags) ==
    Apply(LAMBDA parsed :
            IF parsed = {} THEN None
            ELSE parse_date_string(
                     dict[tags[CHOOSE i \in parsed : \A j \in parsed : i <= j]]),
          {i \in 1..Len(tags) :
             Has(dict, tags[i]) /\ Truthy(parse_date_string(dict[tags[i]]))})

\* lines 131-142: the Exif sub-block, an exception of get_ifd being caught
PilSubBlock(v) ==
    IF v.ifdRaises THEN None
    ELSE IF NonEmpty(v.ifd)
         THEN FirstParsed(v.ifd, <<TagDateTimeOriginal, TagDateTimeDigitized>>)
         ELSE None

\* the try block with the two tag lists exchanged: the top-level tags are
\* looked at before the Exif sub-block
PilTryBlock_TopLevelFirst(v) ==
    IF ~v.opens THEN OSError
    ELSE IF ~NonEmpty(v.exifdata) THEN None
    ELSE Apply(LAMBDA top :
                 IF Truthy(top) THEN top ELSE PilSubBlock(v),
               FirstParsed(v.exifdata,
                   <<TagDateTimeOriginal, TagDateTimeDigitized, TagDateTime>>))

\* the try block returning after a non-empty Exif sub-block, whatever the
\* sub-block gave
PilTryBlock_SubBlockEnds(v) ==
    IF ~v.opens THEN OSError
    ELSE IF ~NonEmpty(v.exifdata) THEN None
    ELSE IF ~v.ifdRaises /\ NonEmpty(v.ifd) THEN PilSubBlock(v)
    ELSE FirstParsed(v.exifdata,
             <<TagDateTimeOriginal, TagDateTimeDigitized, TagDateTime>>)

\* lines 124-151: the body of the try block of _get_date_with_pil
PilTryBlock(v) ==
    IF ~v.opens THEN OSError
    ELSE IF ~NonEmpty(v.exifdata) THEN None
    ELSE Apply(LAMBDA sub :
                 IF Truthy(sub) THEN sub
                 ELSE FirstParsed(v.exifdata,
                          <<TagDateTimeOriginal, TagDateTimeDigitized, TagDateTime>>),
               PilSubBlock(v))

\* ExifReader._get_date_with_pil
get_date_with_pil(v) == Caught(PilTryBlock(v))

\* lines 171-174: the first tag of the list that is in tags decides
FirstPresent(tags, names) ==
    Apply(LAMBDA present :
            IF present = {} THEN None
            ELSE parse_date_string(
                     tags[names[CHOOSE i \in present : \A j \in present : i <= j]]),
          {i \in 1..Len(names) : Has(tags, names[i])})

\* lines 161-174: the body of the try block of _get_date_with_exifread
ExTryBlock(v) ==
    IF ~v.opens THEN OSError
    ELSE FirstPresent(v.tags, <<ExDateTimeOriginal, ExDateTimeDigitized, ExDateTime>>)

\* ExifReader._get_date_with_exifread
get_date_with_exifread(v) == Caught(ExTryBlock(v))

\* the fallback written with the day first
get_fallback_date_DayFirst(m) ==
    IF m.raises THEN None
    ELSE Pad2(m.date.d) \o <<"/">> \o Pad2(m.date.m) \o <<"/">> \o YearText(m.date.y)

\* ExifReader._get_fallback_date
get_fallback_date(m) == IF m.raises THEN None ELSE Strftime(m.date)

----------------------------------------------------------------------------
(* WatermarkConfig, utils/config.py *)

\* Python objects that carry their type: 36 and "36" are different values
PyInt(n) == [kind |-> "int", int |-> n]
PyStr(s) == [kind |-> "str", str |-> s]
PyBool(b) == [kind |-> "bool", bool |-> b]
PyNone == [kind |-> "NoneType"]

\* an exception leaving a constructor or a method
Error(name) == [raised |-> name]
IsError(r) == "raised" \in DOMAIN r

TopLeft == <<"t", "o", "p", "-", "l", "e", "f", "t">>
TopRight == <<"t", "o", "p", "-", "r", "i", "g", "h", "t">>
BottomLeft == <<"b", "o", "t", "t", "o", "m", "-", "l", "e", "f", "t">>
BottomRight == <<"b", "o", "t", "t", "o", "m", "-", "r", "i", "g", "h", "t">>
Center == <<"c", "e", "n", "t", "e", "r">>
White == <<"w", "h", "i", "t", "e">>

\* line 28
valid_positions ==
    {PyStr(TopLeft), PyStr(TopRight), PyStr(BottomLeft), PyStr(BottomRight), PyStr(Center)}

\* lines 15-18: the fields and their defaults
ConfigFields == {"font_size", "color", "position", "output_quality"}
DefaultFontSize == 36
DefaultQuality == 95
Defaults ==
    [font_size |-> PyInt(DefaultFontSize), color |-> PyStr(White),
     position |-> PyStr(BottomRight), output_quality |-> PyInt(DefaultQuality)]

\* x <= n, x < n, x > n of Python for an int n: an int compares, a str or
\* None raises TypeError
Comparable(x) == x.kind \in {"int", "bool"}
NumVal(x) == IF x.kind = "bool" THEN (IF x.bool THEN 1 ELSE 0) ELSE x.int

\* __post_init__ with the quality checked from below only
post_init_NoUpperBound(self) ==
    IF ~Comparable(self.font_size) THEN Error("TypeError")
    ELSE IF NumVal(self.font_size) <= 0 THEN Error("ValueError")
    ELSE IF ~Comparable(self.output_quality) THEN Error("TypeError")
    ELSE IF NumVal(self.output_quality) < 1 THEN Error("ValueError")
    ELSE IF self.position \notin valid_positions THEN Error("ValueError")
    ELSE self

\* __post_init__ without the test of the position
post_init_AnyPosition(self) ==
    IF ~Comparable(self.font_size) THEN Error("TypeError")
    ELSE IF NumVal(self.font_size) <= 0 THEN Error("ValueError")
    ELSE IF ~Comparable(self.output_quality) THEN Error("TypeError")
    ELSE IF NumVal(self.output_quality) < 1 \/ NumVal(self.output_quality) > 100
         THEN Error("ValueError")
    ELSE self

\* WatermarkConfig.__post_init__, lines 20-30
post_init(self) ==
    IF ~Comparable(self.font_size) THEN Error("TypeError")
    ELSE IF NumVal(self.font_size) <= 0 THEN Error("ValueError")
    ELSE IF ~Comparable(self.output_quality) THEN Error("TypeError")
    ELSE IF NumVal(self.output_quality) < 1 \/ NumVal(self.output_quality) > 100
         THEN Error("ValueError")
    ELSE IF self.position \notin valid_positions THEN Error("ValueError")
    ELSE self

\* the __init__ the dataclass decorator of line 11 generates: an unknown
\* keyword is a TypeError, a missing one takes its default
WatermarkConfig(kwargs) ==
    IF ~(DOMAIN kwargs \subseteq ConfigFields) THEN Error("TypeError")
    ELSE post_init([f \in ConfigFields |->
                      IF f \in DOMAIN kwargs THEN kwargs[f] ELSE Defaults[f]])

\* WatermarkConfig.to_dict, lines 32-39
to_dict(self) == [f \in ConfigFields |-> self[f]]

\* WatermarkConfig.from_dict, lines 41-44; yaml.safe_load of an empty file is
\* None, and cls(**None) is a TypeError
from_dict(config_dict) ==
    IF "kind" \in DOMAIN config_dict THEN Error("TypeError")
    ELSE WatermarkConfig(config_dict)

\* the text yaml.dump and yaml.safe_load exchange: one scalar for each key
\* of the mapping, written plain or in single quotes
Scalar(style, text) == [style |-> style, text |-> text]

\* the implicit resolver of PyYAML on a plain scalar (yaml/resolver.py):
\* decimal and octal integers, the words for booleans and null; floats and
\* timestamps are not among the texts of the model
IsDecimalText(t) ==
    /\ t # <<>> /\ AllDigits(t)
    /\ t = <<"0">> \/ t[1] # "0"
IsOctalText(t) ==
    /\ Len(t) > 1 /\ t[1] = "0"
    /\ \A i \in 1..Len(t) : t[i] \in {"0", "1", "2", "3", "4", "5", "6", "7"}
OctalOf(t) ==
    LET val[i \in 0..Len(t)] == IF i = 0 THEN 0 ELSE 8 * val[i - 1] + DigitVal(t[i])
    IN  val[Len(t)]
Unsigned(t) == IF t # <<>> /\ t[1] \in {"-", "+"} THEN Tail(t) ELSE t
Sign(t) == IF t # <<>> /\ t[1] = "-" THEN -1 ELSE 1
YamlTrue == {<<"t", "r", "u", "e">>, <<"y", "e", "s">>, <<"o", "n">>}
YamlFalse == {<<"f", "a", "l", "s", "e">>, <<"n", "o">>, <<"o", "f", "f">>}
YamlNull == {<<>>, <<"~">>, <<"n", "u", "l", "l">>}
Resolved(t) ==
    IF IsDecimalText(Unsigned(t)) THEN PyInt(Sign(t) * IntOf(Unsigned(t)))
    ELSE IF IsOctalText(Unsigned(t)) THEN PyInt(Sign(t) * OctalOf(Unsigned(t)))
    ELSE IF t \in YamlTrue THEN PyBool(TRUE)
    ELSE IF t \in YamlFalse THEN PyBool(FALSE)
    ELSE IF t \in YamlNull THEN PyNone
    ELSE PyStr(t)

\* the digits of an int as yaml.dump writes them
IntText(n) == IF n < 0 THEN <<"-">> \o Decimal(-n) ELSE Decimal(n)

\* yaml.dump of one value with every str written plain
Represent_Plain(v) ==
    IF v.kind = "int" THEN Scalar("plain", IntText(v.int))
    ELSE IF v.kind = "bool"
         THEN Scalar("plain", IF v.bool THEN <<"t", "r", "u", "e">>
                                         ELSE <<"f", "a", "l", "s", "e">>)
    ELSE IF v.kind = "NoneType" THEN Scalar("plain", <<"n", "u", "l", "l">>)
    ELSE Scalar("plain", v.str)

\* yaml.dump of one value (yaml/representer.py, yaml/emitter.py): a str is
\* written plain when it would be read back as a str, in quotes otherwise
Represent(v) ==
    IF v.kind = "int" THEN Scalar("plain", IntText(v.int))
    ELSE IF v.kind = "bool" THEN Scalar("plain", IF v.bool THEN <<"t", "r", "u", "e">> ELSE <<"f", "a", "l", "s", "e">>)
    ELSE IF v.kind = "NoneType" THEN Scalar("plain", <<"n", "u", "l", "l">>)
    ELSE IF Resolved(v.str).kind = "str" THEN Scalar("plain", v.str)
    ELSE Scalar("quoted", v.str)

\* yaml.dump(self.to_dict(), f, default_flow_style=False), line 73
yaml_dump(d) == [k \in DOMAIN d |-> Represent(d[k])]

\* yaml.safe_load(f), line 59: an empty document is None
EmptyDocument == PyNone
yaml_safe_load(doc) ==
    IF "kind" \in DOMAIN doc THEN PyNone
    ELSE [k \in DOMAIN doc |->
            IF doc[k].style = "quoted" THEN PyStr(doc[k].text) ELSE Resolved(doc[k].text)]

NoFile == [exists |-> FALSE]
YamlFile(doc) == [exists |-> TRUE, doc |-> doc]

\* WatermarkConfig.from_yaml, lines 57-62: every exception becomes a ValueError
from_yaml(file, readable) ==
    IF ~file.exists \/ ~readable THEN Error("ValueError")
    ELSE IF IsError(from_dict(yaml_safe_load(file.doc))) THEN Error("ValueError")
    ELSE from_dict(yaml_safe_load(file.doc))

\* WatermarkConfig.save_to_yaml, lines 71-75: the file after the call
save_to_yaml(self, file, writable) ==
    IF writable THEN YamlFile(yaml_dump(to_dict(self))) ELSE file

----------------------------------------------------------------------------
(* State *)

NotTried == <<"NotTried">>
Pending == <<"Pending">>

\* no command line yet, no config object yet, no directory run yet, main
\* not yet exited
NoArgs == [given |-> FALSE]
NoConfig == [constructed |-> FALSE]
NoBatch == [image_files |-> <<>>, next |-> 1, success_count |-> 0, total_count |-> 0,
            attempted |-> <<>>, drawn |-> {}]
Running == "running"

\* _current_timestamp_info: the attribute is not there, or holds None, or
\* holds the dict get_original_timestamp returned
NoAttribute == [kind |-> "no attribute"]
InfoNone == [kind |-> "NoneType"]
InfoDict(d) == [kind |-> "dict", dict |-> d]

\* lines 25-33: the processor as main builds it (main.py line 132), without
\* show_watermark_info
WatermarkProcessor(show_watermark_info) ==
    [show_watermark_info |-> show_watermark_info, current_timestamp_info |-> NoAttribute]
MainProcessor == WatermarkProcessor(FALSE)

\* lines 12-22 and _check_dependencies: at least one of the two libraries
Platforms == {p \in [padYear : BOOLEAN, pil : BOOLEAN, exifread : BOOLEAN] :
                p.pil \/ p.exifread}

NoPath == [name |-> <<>>, parent |-> <<>>, exists |-> FALSE, is_file |-> FALSE]
NoStrategy == [pil |-> NotTried, exifread |-> NotTried, fallback |-> NotTried]

\* the paths get_date_taken is called with: a regular file, a directory,
\* a path that does not exist
PhotoName == <<"a", ".", "j", "p", "g">>
PhotoDir == <<"p">>
Paths == {p \in [name : {PhotoName}, parent : {<<PhotoDir>>}, exists : BOOLEAN,
                 is_file : BOOLEAN] :
            p.is_file => p.exists}

Init ==
    /\ platform \in Platforms
    /\ pc = "idle"
    /\ op = "none"
    /\ date_str = None
    /\ image_path = NoPath
    /\ use_fallback = TRUE
    /\ pilView = NotReadPil
    /\ exView = NotReadEx
    /\ mtimeView = NotReadMtime
    /\ consulted = <<>>
    /\ strategy = NoStrategy
    /\ result = Pending
    /\ report = None
    /\ fs = [dirs |-> {}, written |-> {}]
    /\ log = <<>>
    /\ args = NoArgs
    /\ config = NoConfig
    /\ yaml_file = NoFile
    /\ batch = NoBatch
    /\ exit_code = Running
    /\ processor = MainProcessor

\* a new call starts with nothing read and nothing returned
Enter(name, first) ==
    /\ pc = "idle"
    /\ op' = name
    /\ pc' = first
    /\ UNCHANGED <<platform, pilView, exView, mtimeView, consulted, strategy,
                   report, fs, log>>

\* the caller has taken the result
Return ==
    /\ pc = "done"
    /\ pc' = "idle"
    /\ op' = "none"
    /\ date_str' = None
    /\ image_path' = NoPath
    /\ use_fallback' = TRUE
    /\ pilView' = NotReadPil
    /\ exView' = NotReadEx
    /\ mtimeView' = NotReadMtime
    /\ consulted' = <<>>
    /\ strategy' = NoStrategy
    /\ result' = Pending
    /\ report' = None
    /\ log' = <<>>
    /\ args' = NoArgs
    /\ UNCHANGED <<platform, fs, config, yaml_file, batch, exit_code, processor>>

----------------------------------------------------------------------------
(* The strings _parse_date_string is called with *)

YearToks == {Pad4(2023), Pad4(2024), Pad4(999), Pad4(0)}
MonthToks == {Pad2(0), Pad2(2), Pad2(12), Pad2(13), <<"8">>}
DayToks == {Pad2(0), Pad2(5), Pad2(29), Pad2(30), Pad2(31), Pad2(32), <<"5">>}

Joined(a, b, c, sep) == a \o <<sep>> \o b \o <<sep>> \o c
IsoTime == <<"T", "1", "4", ":", "3", "0", ":", "4", "5">>

ExifWithTime == {Joined(y, m, d, ":") \o TimePart :
                    y \in YearToks, m \in MonthToks, d \in DayToks}
ExifDateOnly == {Joined(y, m, d, ":") : y \in YearToks, m \in MonthToks, d \in DayToks}
IsoDateOnly  == {Joined(y, m, d, "-") : y \in YearToks, m \in MonthToks, d \in DayToks}
IsoWithTime  == {s \o TimePart : s \in IsoDateOnly}
IsoWithT     == {s \o IsoTime : s \in IsoDateOnly}
SlashDate    == {Joined(y, m, d, "/") : y \in YearToks, m \in MonthToks, d \in DayToks}
DmyDate      == {Joined(d, m, y, "/") : y \in YearToks, m \in MonthToks, d \in DayToks}

DateStrings ==
    ExifWithTime \cup ExifDateOnly \cup IsoDateOnly \cup IsoWithTime \cup IsoWithT
    \cup SlashDate \cup DmyDate
    \cup {None, <<>>, <<"i", "n", "v", "a", "l", "i", "d", "_", "d", "a", "t", "e">>,
          <<" ">> \o ExifText(2023, 8, 15)}

----------------------------------------------------------------------------
(* ExifReader._parse_date_string, called on its own *)

Call_parse_date_string(s) ==
    /\ Enter("_parse_date_string", "done")
    /\ date_str' = s
    /\ result' = parse_date_string(s)
    /\ UNCHANGED <<image_path, use_fallback>>
    /\ UNCHANGED mainVars

----------------------------------------------------------------------------
(* ExifReader.get_date_taken, lines 84-119 *)

LogNotFound == <<"error", "Image file not found">>
LogFallback == <<"info", "Using fallback date">>
LogNoDate == <<"warning", "No date information found in EXIF data">>
LogPilError == <<"error", "Error reading EXIF with PIL">>
LogExError == <<"error", "Error reading EXIF with exifread">>
LogMtimeError == <<"error", "Error getting fallback date">>

\* where a finished get_date_taken hands its value
AfterDate == IF op = "process_single_image" THEN "psi_date" ELSE "done"

Call_get_date_taken(p, fb) ==
    /\ Enter("get_date_taken", "gdt_check")
    /\ image_path' = p
    /\ use_fallback' = fb
    /\ UNCHANGED <<date_str, result>>
    /\ UNCHANGED mainVars

\* get_date_taken without the test of lines 95-97
gdt_check_Unchecked ==
    /\ pc = "gdt_check"
    /\ pc' = "gdt_pil"
    /\ UNCHANGED <<log, result>>
    /\ UNCHANGED <<platform, op, date_str, image_path, use_fallback, pilView, exView,
                   mtimeView, consulted, strategy, report, fs>>
    /\ UNCHANGED mainVars

\* lines 95-97
gdt_check ==
    /\ pc = "gdt_check"
    /\ IF ~image_path.exists \/ ~image_path.is_file
       THEN /\ log' = Append(log, LogNotFound)
            /\ result' = None
            /\ pc' = AfterDate
       ELSE /\ pc' = "gdt_pil"
            /\ UNCHANGED <<log, result>>
    /\ UNCHANGED <<platform, op, date_str, image_path, use_fallback, pilView, exView,
                   mtimeView, consulted, strategy, report, fs>>
    /\ UNCHANGED mainVars

\* lines 99-103 without the return: the date is kept and the next strategy
\* runs all the same
gdt_pil_NoReturn ==
    /\ pc = "gdt_pil"
    /\ IF platform.pil
       THEN \E v \in PilViews :
              \E date \in {get_date_with_pil(v)} :
                  /\ pilView' = v
                  /\ consulted' = Append(consulted, "pil")
                  /\ strategy' = [strategy EXCEPT !.pil = date]
                  /\ log' = IF Raised(PilTryBlock(v)) THEN Append(log, LogPilError) ELSE log
                  /\ result' = IF Truthy(date) THEN date ELSE result
                  /\ pc' = "gdt_exifread"
       ELSE /\ pc' = "gdt_exifread"
            /\ UNCHANGED <<pilView, consulted, strategy, log, result>>
    /\ UNCHANGED <<platform, op, date_str, image_path, use_fallback, exView, mtimeView,
                   report, fs>>
    /\ UNCHANGED mainVars

\* lines 99-103
gdt_pil ==
    /\ pc = "gdt_pil"
    /\ IF platform.pil
       THEN \E v \in PilViews :
              \E date \in {get_date_with_pil(v)} :
                  /\ pilView' = v
                  /\ consulted' = Append(consulted, "pil")
                  /\ strategy' = [strategy EXCEPT !.pil = date]
                  /\ log' = IF Raised(PilTryBlock(v)) THEN Append(log, LogPilError) ELSE log
                  /\ IF Truthy(date)
                     THEN result' = date /\ pc' = AfterDate
                     ELSE pc' = "gdt_exifread" /\ UNCHANGED result
       ELSE /\ pc' = "gdt_exifread"
            /\ UNCHANGED <<pilView, consulted, strategy, log, result>>
    /\ UNCHANGED <<platform, op, date_str, image_path, use_fallback, exView, mtimeView,
                   report, fs>>
    /\ UNCHANGED mainVars

\* lines 105-109
gdt_exifread ==
    /\ pc = "gdt_exifread"
    /\ IF platform.exifread
       THEN \E v \in ExViews :
              \E date \in {get_date_with_exifread(v)} :
                  /\ exView' = v
                  /\ pilView' = NotReadPil
                  /\ consulted' = Append(consulted, "exifread")
                  /\ strategy' = [strategy EXCEPT !.exifread = date]
                  /\ log' = IF Raised(ExTryBlock(v)) THEN Append(log, LogExError) ELSE log
                  /\ IF Truthy(date)
                     THEN result' = date /\ pc' = AfterDate
                     ELSE pc' = "gdt_fallback" /\ UNCHANGED result
       ELSE /\ pc' = "gdt_fallback"
            /\ pilView' = NotReadPil
            /\ UNCHANGED <<exView, consulted, strategy, log, result>>
    /\ UNCHANGED <<platform, op, date_str, image_path, use_fallback, mtimeView,
                   report, fs>>
    /\ UNCHANGED mainVars

\* lines 111-119 without the test of use_fallback
gdt_fallback_Always ==
    /\ pc = "gdt_fallback"
    /\ \E m \in MtimeViews :
         \E date \in {get_fallback_date(m)} :
             /\ mtimeView' = m
             /\ exView' = NotReadEx
             /\ consulted' = Append(consulted, "fallback")
             /\ strategy' = [strategy EXCEPT !.fallback = date]
             /\ IF Truthy(date)
                THEN /\ result' = date
                     /\ log' = Append(log, LogFallback)
                ELSE /\ result' = None
                     /\ log' = Append(Append(log, LogMtimeError), LogNoDate)
    /\ pc' = AfterDate
    /\ UNCHANGED <<platform, op, date_str, image_path, use_fallback, pilView,
                   report, fs>>
    /\ UNCHANGED mainVars

\* lines 111-119
gdt_fallback ==
    /\ pc = "gdt_fallback"
    /\ IF use_fallback
       THEN \E m \in MtimeViews :
              \E date \in {get_fallback_date(m)} :
                  /\ mtimeView' = m
                  /\ exView' = NotReadEx
                  /\ consulted' = Append(consulted, "fallback")
                  /\ strategy' = [strategy EXCEPT !.fallback = date]
                  /\ IF Truthy(date)
                     THEN /\ result' = date
                          /\ log' = Append(log, LogFallback)
                     ELSE /\ result' = None
                          /\ log' = Append(Append(log, LogMtimeError), LogNoDate)
       ELSE /\ result' = None
            /\ log' = Append(log, LogNoDate)
            /\ exView' = NotReadEx
            /\ UNCHANGED <<mtimeView, consulted, strategy>>
    /\ pc' = AfterDate
    /\ UNCHANGED <<platform, op, date_str, image_path, use_fallback, pilView,
                   report, fs>>
    /\ UNCHANGED mainVars


----------------------------------------------------------------------------
(* ExifReader.get_original_timestamp, lines 37-82 *)

SourcePIL == <<"P", "I", "L">>
SourceExifread == <<"e", "x", "i", "f", "r", "e", "a", "d">>
DateFields == {"datetime_original", "datetime_digitized", "datetime_modified"}

\* lines 51-59
NewReport(p) ==
    [file_path |-> p.name, exif_found |-> FALSE, datetime_original |-> None,
     datetime_digitized |-> None, datetime_modified |-> None,
     file_modification_time |-> None, source |-> None]

\* one entry of a dict when the tag is there, no entry otherwise
Entry(dict, tag, field) == IF Has(dict, tag) THEN field :> dict[tag] ELSE EmptyDict

\* line 223: any(v for k, v in timestamp_info.items() if k.startswith('datetime_'))
AnyDateField(info) == \E k \in DOMAIN info \cap DateFields : Truthy(info[k])

\* lines 190-221: the dict _get_full_exif_with_pil fills
PilInfo(v) ==
    (IF v.ifdRaises
     THEN Entry(v.exifdata, TagDateTimeOriginal, "datetime_original")
          @@ Entry(v.exifdata, TagDateTimeDigitized, "datetime_digitized")
     ELSE Entry(v.ifd, TagDateTimeOriginal, "datetime_original")
          @@ Entry(v.ifd, TagDateTimeDigitized, "datetime_digitized"))
    @@ Entry(v.exifdata, TagDateTime, "datetime_modified")
    @@ [exif_found |-> TRUE, source |-> SourcePIL]

\* ExifReader._get_full_exif_with_pil: the dict, or EmptyDict for None
get_full_exif_with_pil(v) ==
    IF ~v.opens THEN EmptyDict
    ELSE IF ~NonEmpty(v.exifdata) THEN EmptyDict
    ELSE IF AnyDateField(PilInfo(v)) THEN PilInfo(v) ELSE EmptyDict

\* ExifReader._get_full_exif_with_exifread: the dict, or EmptyDict for None
get_full_exif_with_exifread(v) ==
    IF ~v.opens THEN EmptyDict
    ELSE IF ~NonEmpty(v.tags) THEN EmptyDict
    ELSE Entry(v.tags, ExDateTimeOriginal, "datetime_original")
         @@ Entry(v.tags, ExDateTimeDigitized, "datetime_digitized")
         @@ Entry(v.tags, ExDateTime, "datetime_modified")
         @@ [exif_found |-> TRUE, source |-> SourceExifread]

\* timestamp_info.update(exif_data)
Update(info, exif_data) == exif_data @@ info

\* where a finished get_original_timestamp hands its value
AfterReport == "done"

Call_get_original_timestamp(p) ==
    /\ Enter("get_original_timestamp", "got_check")
    /\ image_path' = p
    /\ UNCHANGED <<date_str, use_fallback, result>>
    /\ UNCHANGED mainVars

\* lines 47-59
got_check ==
    /\ pc = "got_check"
    /\ IF ~image_path.exists \/ ~image_path.is_file
       THEN /\ log' = Append(log, LogNotFound)
            /\ result' = None
            /\ pc' = AfterReport
            /\ UNCHANGED report
       ELSE /\ report' = NewReport(image_path)
            /\ pc' = "got_pil"
            /\ UNCHANGED <<log, result>>
    /\ UNCHANGED <<platform, op, date_str, image_path, use_fallback, pilView, exView,
                   mtimeView, consulted, strategy, fs>>
    /\ UNCHANGED mainVars

\* lines 61-65
got_pil ==
    /\ pc = "got_pil"
    /\ IF platform.pil
       THEN \E v \in PilViews :
              /\ pilView' = v
              /\ consulted' = Append(consulted, "pil")
              /\ report' = Update(report, get_full_exif_with_pil(v))
              /\ log' = IF ~v.opens THEN Append(log, LogPilError) ELSE log
       ELSE UNCHANGED <<pilView, consulted, report, log>>
    /\ pc' = "got_exifread"
    /\ UNCHANGED <<platform, op, date_str, image_path, use_fallback, exView, mtimeView,
                   strategy, result, fs>>
    /\ UNCHANGED mainVars

\* lines 67-71
got_exifread ==
    /\ pc = "got_exifread"
    /\ IF ~report.exif_found /\ platform.exifread
       THEN \E v \in ExViews :
              /\ exView' = v
              /\ pilView' = NotReadPil
              /\ consulted' = Append(consulted, "exifread")
              /\ report' = Update(report, get_full_exif_with_exifread(v))
              /\ log' = IF ~v.opens THEN Append(log, LogExError) ELSE log
       ELSE UNCHANGED <<pilView, exView, consulted, report, log>>
    /\ pc' = "got_mtime"
    /\ UNCHANGED <<platform, op, date_str, image_path, use_fallback, mtimeView,
                   strategy, result, fs>>
    /\ UNCHANGED mainVars

\* lines 73-82
got_mtime ==
    /\ pc = "got_mtime"
    /\ \E m \in MtimeViews :
         /\ mtimeView' = m
         /\ consulted' = Append(consulted, "mtime")
         /\ \E final \in {IF m.raises THEN report
                          ELSE [report EXCEPT
                                  !.file_modification_time = Strftime(m.date) \o TimePart]} :
              report' = final /\ result' = final
         /\ log' = IF m.raises THEN Append(log, LogMtimeError) ELSE log
    /\ pc' = AfterReport
    /\ UNCHANGED <<platform, op, date_str, image_path, use_fallback, pilView, exView,
                   strategy, fs>>
    /\ UNCHANGED mainVars


----------------------------------------------------------------------------
(* ExifReader.get_original_timestamp and get_date_taken on one file: what  *)
(* the file holds is fixed, and both methods read it                       *)

\* exifread.process_file(f, stop_tag='DateTimeOriginal'), line 162: reading
\* the Exif sub-block ends at DateTimeOriginal, so that DateTimeDigitized,
\* which follows it, is not among the tags
StoppedAt(tags) ==
    IF Has(tags, ExDateTimeOriginal)
    THEN [k \in DOMAIN tags \ {ExDateTimeDigitized} |-> tags[k]]
    ELSE tags

\* a strategy was consulted and gave a date (lines 102, 108, 114)
Gave(x) == x # NotTried /\ Truthy(x)

\* lines 61-65, 67-71, 73-80 of get_original_timestamp on an existing file:
\* the report after Pillow, after exifread, after the modification time
ReportAfterPil(p, plat, f) ==
    IF plat.pil THEN Update(NewReport(p), get_full_exif_with_pil(f.pil)) ELSE NewReport(p)
ReportAfterExifread(plat, f, info) ==
    IF ~info.exif_found /\ plat.exifread
    THEN Update(info, get_full_exif_with_exifread(f.ex))
    ELSE info
ReportAfterMtime(f, info) ==
    IF f.m.raises THEN info
    ELSE [info EXCEPT !.file_modification_time = Strftime(f.m.date) \o TimePart]

\* lines 99-119 of get_date_taken on an existing file: what each strategy
\* yields, NotTried for one that is not consulted, and the date returned
PilYield(plat, f) == IF plat.pil THEN get_date_with_pil(f.pil) ELSE NotTried
ExifreadYield(plat, f, pil) ==
    IF Gave(pil) \/ ~plat.exifread THEN NotTried
    ELSE get_date_with_exifread([f.ex EXCEPT !.tags = IF f.stops THEN StoppedAt(@) ELSE @])
FallbackYield(f, fallback, pil, ex) ==
    IF Gave(pil) \/ Gave(ex) \/ ~fallback THEN NotTried ELSE get_fallback_date(f.m)
DateReturned(pil, ex, fb) ==
    IF Gave(pil) THEN pil ELSE IF Gave(ex) THEN ex ELSE IF Gave(fb) THEN fb ELSE None

\* what the two methods log
ReportLog(plat, f, afterPil) ==
    (IF plat.pil /\ ~f.pil.opens THEN <<LogPilError>> ELSE <<>>)
    \o (IF ~afterPil.exif_found /\ plat.exifread /\ ~f.ex.opens THEN <<LogExError>> ELSE <<>>)
    \o (IF f.m.raises THEN <<LogMtimeError>> ELSE <<>>)
DateLog(plat, f, fallback, pil, ex) ==
    (IF plat.pil /\ ~f.pil.opens THEN <<LogPilError>> ELSE <<>>)
    \o (IF ex # NotTried /\ ~f.ex.opens THEN <<LogExError>> ELSE <<>>)
    \o (IF Gave(pil) \/ Gave(ex) THEN <<>>
        ELSE IF ~fallback THEN <<LogNoDate>>
        ELSE IF f.m.raises THEN <<LogMtimeError, LogNoDate>> ELSE <<LogFallback>>)

\* the files of the model: a date tag holds a date or the all-zero value
FileValues == {ExifText(2023, 8, 15), ExifText(0, 0, 0)}
FilePilViews ==
    {v \in PilViews :
        /\ DOMAIN v.exifdata \subseteq {TagDateTimeOriginal, TagDateTime, TagExifIFD}
        /\ Has(v.exifdata, TagDateTimeOriginal)
              => v.exifdata[TagDateTimeOriginal] = ExifText(2023, 8, 15)
        /\ Has(v.exifdata, TagDateTime) => v.exifdata[TagDateTime] \in FileValues
        /\ \A k \in DOMAIN v.ifd : v.ifd[k] \in FileValues}
FileExViews ==
    {v \in ExViews :
        /\ Has(v.tags, ExMake) => DOMAIN v.tags = {ExMake}
        /\ \A k \in DOMAIN v.tags \ {ExMake} : v.tags[k] \in FileValues
        /\ Has(v.tags, ExDateTimeDigitized) => v.tags[ExDateTimeDigitized] = ExifText(2023, 8, 15)}
FileMtimeViews == {m \in MtimeViews : m.raises \/ m.date.y = 2024}
Files ==
    {f \in [pil : FilePilViews, ex : FileExViews, m : FileMtimeViews, stops : BOOLEAN] :
        f.stops => Has(f.ex.tags, ExDateTimeOriginal) /\ Has(f.ex.tags, ExDateTimeDigitized)}

----------------------------------------------------------------------------
(* WatermarkProcessor.process_single_image, lines 35-74, of a processor    *)
(* built as main does (line 132), or with show_watermark_info              *)

\* str.lower() on the letters file names are written with
LowerChar(c) ==
    CASE c = "A" -> "a" [] c = "B" -> "b" [] c = "C" -> "c" [] c = "D" -> "d"
      [] c = "E" -> "e" [] c = "F" -> "f" [] c = "G" -> "g" [] c = "H" -> "h"
      [] c = "I" -> "i" [] c = "J" -> "j" [] c = "K" -> "k" [] c = "L" -> "l"
      [] c = "M" -> "m" [] c = "N" -> "n" [] c = "O" -> "o" [] c = "P" -> "p"
      [] c = "Q" -> "q" [] c = "R" -> "r" [] c = "S" -> "s" [] c = "T" -> "t"
      [] c = "U" -> "u" [] c = "V" -> "v" [] c = "W" -> "w" [] c = "X" -> "x"
      [] c = "Y" -> "y" [] c = "Z" -> "z"
      [] OTHER -> c
Lower(s) == [i \in 1..Len(s) |-> LowerChar(s[i])]

\* the last position of c in s, 0 when there is none (str.rfind, from 1)
LastIndexOf(s, c) ==
    IF Contains(s, c)
    THEN CHOOSE i \in 1..Len(s) : s[i] = c /\ \A j \in (i + 1)..Len(s) : s[j] # c
    ELSE 0

\* PurePath.suffix: from the last dot of the name, unless the name starts
\* or ends with that dot
Suffix(name) ==
    Apply(LAMBDA i : IF 1 < i /\ i < Len(name) THEN SubSeq(name, i, Len(name)) ELSE <<>>,
          LastIndexOf(name, "."))

\* lines 397: ['.jpg', '.jpeg', '.png', '.tiff', '.tif', '.bmp']
supported_extensions ==
    {<<".", "j", "p", "g">>, <<".", "j", "p", "e", "g">>, <<".", "p", "n", "g">>,
     <<".", "t", "i", "f", "f">>, <<".", "t", "i", "f">>, <<".", "b", "m", "p">>}

\* the test made on the whole name: a supported extension anywhere in it
is_supported_image_format_Anywhere(name) ==
    \E e \in supported_extensions :
        \E i \in 1..(Len(name) - Len(e) + 1) :
            SubSeq(Lower(name), i, i + Len(e) - 1) = e

\* WatermarkProcessor._is_supported_image_format
is_supported_image_format(name) == Lower(Suffix(name)) \in supported_extensions

\* the file names of the model
FileNames ==
    {<<"a", ".", "j", "p", "g">>, <<"b", ".", "J", "P", "G">>,
     <<"c", ".", "t", "x", "t">>, <<".", "p", "n", "g">>,
     <<"j", "p", "g">>, <<"e", ".", "j", "p", "g", ".", "b", "a", "k">>}

\* the directories a source file lies in, as pathlib's parts: the current
\* directory (no part), a relative one, the root, one below the root
Root == <<"/">>
Parents == {<<>>, <<PhotoDir>>, <<Root>>, <<Root, PhotoDir>>}

ImagePaths == {p \in [name : FileNames, parent : {<<PhotoDir>>}, exists : BOOLEAN,
                      is_file : BOOLEAN] :
                 p.is_file => p.exists}

LogProcessing == <<"info", "Processing image">>
LogUnsupported == <<"warning", "Unsupported image format">>
LogNoDateFor == <<"warning", "No date information found for">>
LogProcessed == <<"info", "Successfully processed">>
LogFailed == <<"error", "Failed to process">>
LogAddError == <<"error", "Error adding watermark">>
LogMkdirError == <<"error", "Error creating output directory">>

\* lines 25-33: a processor exists only where Pillow is installed
Call_process_single_image(p) ==
    /\ platform.pil
    /\ Enter("process_single_image", "psi_format")
    /\ image_path' = p
    /\ UNCHANGED <<date_str, use_fallback, result>>
    /\ UNCHANGED mainVars

\* the files a processor that shows its watermark information reads:
\* exifread finds a DateTimeOriginal in them, or nothing, and the
\* modification time is there or is not
InfoFiles ==
    [pil : {v \in PilViews : ~v.opens},
     ex : {v \in ExViews :
             \/ ~v.opens
             \/ /\ v.opens
                /\ DOMAIN v.tags = {ExDateTimeOriginal}
                /\ v.tags[ExDateTimeOriginal] = ExifText(2023, 8, 15)},
     m : FileMtimeViews,
     stops : {FALSE}]

\* ExifReader.get_original_timestamp, lines 47-82, as line 55 calls it
original_timestamp(p, plat, f) ==
    IF ~p.exists \/ ~p.is_file THEN InfoNone
    ELSE InfoDict(ReportAfterMtime(f, ReportAfterExifread(plat, f, ReportAfterPil(p, plat, f))))
original_timestamp_log(p, plat, f) ==
    IF ~p.exists \/ ~p.is_file THEN <<LogNotFound>>
    ELSE ReportLog(plat, f, ReportAfterPil(p, plat, f))

\* lines 46-58 with the field assigned only while the processor has none
psi_format_KeepsFirst ==
    /\ pc = "psi_format"
    /\ IF ~is_supported_image_format(image_path.name)
       THEN /\ log' = Append(Append(log, LogProcessing), LogUnsupported)
            /\ result' = FALSE
            /\ pc' = "done"
            /\ UNCHANGED <<use_fallback, processor>>
       ELSE /\ use_fallback' = TRUE
            /\ pc' = "gdt_check"
            /\ IF processor.show_watermark_info
                  /\ processor.current_timestamp_info.kind # "dict"
               THEN \E f \in InfoFiles :
                      /\ processor' = [processor EXCEPT !.current_timestamp_info =
                                          original_timestamp(image_path, platform, f)]
                      /\ log' = Append(log, LogProcessing)
                                  \o original_timestamp_log(image_path, platform, f)
               ELSE /\ log' = Append(log, LogProcessing)
                    /\ UNCHANGED processor
            /\ UNCHANGED result
    /\ UNCHANGED <<platform, op, date_str, image_path, pilView, exView, mtimeView,
                   consulted, strategy, report, fs>>
    /\ UNCHANGED <<args, config, yaml_file, batch, exit_code>>

\* lines 46-58: the format, then _current_timestamp_info when
\* show_watermark_info is set, then the call of get_date_taken
psi_format ==
    /\ pc = "psi_format"
    /\ IF ~is_supported_image_format(image_path.name)
       THEN /\ log' = Append(Append(log, LogProcessing), LogUnsupported)
            /\ result' = FALSE
            /\ pc' = "done"
            /\ UNCHANGED <<use_fallback, processor>>
       ELSE /\ use_fallback' = TRUE
            /\ pc' = "gdt_check"
            /\ IF processor.show_watermark_info
               THEN \E f \in InfoFiles :
                      /\ processor' = [processor EXCEPT !.current_timestamp_info =
                                          original_timestamp(image_path, platform, f)]
                      /\ log' = Append(log, LogProcessing)
                                  \o original_timestamp_log(image_path, platform, f)
               ELSE /\ log' = Append(log, LogProcessing)
                    /\ UNCHANGED processor
            /\ UNCHANGED result
    /\ UNCHANGED <<platform, op, date_str, image_path, pilView, exView, mtimeView,
                   consulted, strategy, report, fs>>
    /\ UNCHANGED <<args, config, yaml_file, batch, exit_code>>

\* line 58: the call of get_date_taken(image_path, use_fallback=True), lines
\* 84-119, taken as one step on the file as it is then
psi_get_date_taken ==
    /\ pc = "gdt_check"
    /\ op = "process_single_image"
    /\ IF ~image_path.exists \/ ~image_path.is_file
       THEN /\ log' = Append(log, LogNotFound)
            /\ result' = None
       ELSE \E f \in InfoFiles :
            \E pil \in {PilYield(platform, f)} :
            \E ex \in {ExifreadYield(platform, f, pil)} :
            \E fb \in {FallbackYield(f, use_fallback, pil, ex)} :
               /\ result' = DateReturned(pil, ex, fb)
               /\ log' = log \o DateLog(platform, f, use_fallback, pil, ex)
    /\ pc' = "psi_date"
    /\ UNCHANGED <<platform, op, date_str, image_path, use_fallback, pilView, exView,
                   mtimeView, consulted, strategy, report, fs>>
    /\ UNCHANGED mainVars

\* lines 58-61: the date get_date_taken returned
psi_date ==
    /\ pc = "psi_date"
    /\ pilView' = NotReadPil
    /\ exView' = NotReadEx
    /\ mtimeView' = NotReadMtime
    /\ IF ~Truthy(result)
       THEN /\ log' = Append(log, LogNoDateFor)
            /\ result' = FALSE
            /\ pc' = "done"
            /\ UNCHANGED date_str
       ELSE /\ date_str' = result
            /\ result' = Pending
            /\ pc' = "psi_add"
            /\ UNCHANGED log
    /\ UNCHANGED <<platform, op, image_path, use_fallback, consulted, strategy,
                   report, fs>>
    /\ UNCHANGED mainVars

\* what the filesystem and Pillow do to _add_watermark_to_image: mkdir,
\* Image.open, the drawing and save each succeed or raise; a save that
\* raises may have created the output file already
AddOutcomes ==
    {[mkdir |-> FALSE, open |-> FALSE, draw |-> FALSE, save |-> "not reached"],
     [mkdir |-> TRUE, open |-> FALSE, draw |-> FALSE, save |-> "not reached"],
     [mkdir |-> TRUE, open |-> TRUE, draw |-> FALSE, save |-> "not reached"],
     [mkdir |-> TRUE, open |-> TRUE, draw |-> TRUE, save |-> "raises"],
     [mkdir |-> TRUE, open |-> TRUE, draw |-> TRUE, save |-> "raises, file created"],
     [mkdir |-> TRUE, open |-> TRUE, draw |-> TRUE, save |-> "saved"]}

\* PurePath.parent of a path given by its parts: "." and "/" are their own
\* parents
PathParent(parts) ==
    IF parts = <<>> \/ parts = <<Root>> THEN parts ELSE SubSeq(parts, 1, Len(parts) - 1)

\* PurePath.name: the last part, "" for "." and for "/"
PathName(parts) ==
    IF parts = <<>> \/ parts = <<Root>> THEN <<>> ELSE parts[Len(parts)]

\* PurePath.__truediv__ with a relative, non-empty name
Join(parts, name) == Append(parts, name)

WatermarkSuffix == <<"_", "w", "a", "t", "e", "r", "m", "a", "r", "k">>

\* the output directory named "_watermark" whatever the parent
output_dir_Unnamed(parent_dir) == Join(parent_dir, WatermarkSuffix)

\* lines 352-354: output_dir = parent_dir / f"{dir_name}_watermark"
output_dir(parent_dir) == Join(parent_dir, PathName(parent_dir) \o WatermarkSuffix)

\* WatermarkProcessor._create_output_directory, lines 351-361: mkdir(exist_ok=True)
create_output_directory(f, parent_dir, made) ==
    IF made THEN [f EXCEPT !.dirs = @ \cup {output_dir(parent_dir)}] ELSE f

\* the image saved beside its output directory, on the source
save_image_InPlace(f, dir, name, outcome) ==
    IF outcome \in {"saved", "raises, file created"}
    THEN [f EXCEPT !.written = @ \cup {Join(PathParent(dir), name)}]
    ELSE f

\* the image saved beside its output directory, under another name
save_image_Beside(f, dir, name, outcome) ==
    IF outcome \in {"saved", "raises, file created"}
    THEN [f EXCEPT !.written = @ \cup {Join(PathParent(dir), <<"w">> \o name)}]
    ELSE f

\* lines 132-137: output_path = output_dir / image_path.name
save_image(f, dir, name, outcome) ==
    IF outcome \in {"saved", "raises, file created"}
    THEN [f EXCEPT !.written = @ \cup {Join(dir, name)}]
    ELSE f

\* the in-memory images of lines 120-129: image, which Image.open returned
\* (or its RGB conversion), and watermarked_image, the copy of line 126, on
\* which _draw_watermark draws
OpenedImage == "image"
WatermarkedImage == "watermarked_image"

\* WatermarkProcessor._add_watermark_to_image, lines 113-143
add_watermark_to_image(f, path, o) ==
    IF ~o.mkdir THEN [fs |-> f, success |-> FALSE, log |-> <<LogMkdirError>>, drawn |-> {}]
    ELSE IF ~o.open
         THEN [fs |-> create_output_directory(f, path.parent, TRUE), success |-> FALSE,
               log |-> <<LogAddError>>, drawn |-> {}]
    ELSE IF ~o.draw
         THEN [fs |-> create_output_directory(f, path.parent, TRUE), success |-> FALSE,
               log |-> <<LogAddError>>, drawn |-> {WatermarkedImage}]
    ELSE [fs |-> save_image(create_output_directory(f, path.parent, TRUE),
                            output_dir(path.parent), path.name, o.save),
          success |-> o.save = "saved",
          log |-> IF o.save = "saved" THEN <<>> ELSE <<LogAddError>>,
          drawn |-> {WatermarkedImage}]

\* lines 169-171 and 270-283: _draw_watermark, reached once Image.open has
\* succeeded, has _print_watermark_info log the timestamps it reads from
\* _current_timestamp_info when the attribute is there and is not None
LogWatermarkInfo == <<"info", "Watermark Details">>
LogTimestamps(info) == <<"info", "Original Photo Timestamps", info>>
print_watermark_info(self, o) ==
    IF ~self.show_watermark_info \/ ~o.open THEN <<>>
    ELSE IF self.current_timestamp_info.kind = "dict"
    THEN <<LogWatermarkInfo, LogTimestamps(self.current_timestamp_info.dict)>>
    ELSE <<LogWatermarkInfo>>

\* lines 63-70
psi_add ==
    /\ pc = "psi_add"
    /\ \E o \in AddOutcomes :
         \E r \in {add_watermark_to_image(fs, image_path, o)} :
            /\ fs' = r.fs
            /\ result' = r.success
            /\ log' = log \o print_watermark_info(processor, o) \o r.log
                          \o <<IF r.success THEN LogProcessed ELSE LogFailed>>
    /\ pc' = "done"
    /\ UNCHANGED <<platform, op, date_str, image_path, use_fallback, pilView, exView,
                   mtimeView, consulted, strategy, report>>
    /\ UNCHANGED mainVars

----------------------------------------------------------------------------
(* WatermarkProcessor._calculate_text_position, lines 314-339 *)

\* line 329
margin == 20

\* the table with the centre rounded toward zero, as int((W - w) / 2) rounds
position_map_Truncated(image_size, text_size) ==
    LET half(n) == IF n < 0 THEN -((-n) \div 2) ELSE n \div 2
    IN  (PyStr(TopLeft) :> <<margin, margin>>)
        @@ (PyStr(TopRight) :> <<image_size[1] - text_size[1] - margin, margin>>)
        @@ (PyStr(BottomLeft) :> <<margin, image_size[2] - text_size[2] - margin>>)
        @@ (PyStr(BottomRight) :> <<image_size[1] - text_size[1] - margin,
                                    image_size[2] - text_size[2] - margin>>)
        @@ (PyStr(Center) :> <<half(image_size[1] - text_size[1]),
                               half(image_size[2] - text_size[2])>>)

\* lines 331-337
position_map(image_size, text_size) ==
    (PyStr(TopLeft) :> <<margin, margin>>)
    @@ (PyStr(TopRight) :> <<image_size[1] - text_size[1] - margin, margin>>)
    @@ (PyStr(BottomLeft) :> <<margin, image_size[2] - text_size[2] - margin>>)
    @@ (PyStr(BottomRight) :> <<image_size[1] - text_size[1] - margin,
                                image_size[2] - text_size[2] - margin>>)
    @@ (PyStr(Center) :> <<(image_size[1] - text_size[1]) \div 2,
                           (image_size[2] - text_size[2]) \div 2>>)

\* line 339: position_map.get(self.config.position, position_map["bottom-right"])
calculate_text_position(self, image_size, text_size) ==
    IF self.position \in DOMAIN position_map(image_size, text_size)
    THEN position_map(image_size, text_size)[self.position]
    ELSE position_map(image_size, text_size)[PyStr(BottomRight)]

----------------------------------------------------------------------------
(* WatermarkConfig and _calculate_text_position, called on their own *)

Middle == <<"m", "i", "d", "d", "l", "e">>
FontSizes == {PyInt(-1), PyInt(0), PyInt(36)}
Qualities == {PyInt(0), PyInt(1), PyInt(100), PyInt(101)}
Colors == {PyStr(White), PyStr(<<"1", "2", "3">>)}
PositionsGiven == {PyStr(TopLeft), PyStr(Middle)}

\* the keyword arguments of the model: every field given, no field given,
\* one field given, a field the class does not have
Kwargs ==
    [font_size : FontSizes, color : Colors, position : PositionsGiven,
     output_quality : Qualities]
    \cup {EmptyDict, [font_size |-> PyInt(0)], [output_quality |-> PyInt(100)],
          [font_size |-> PyInt(36), opacity |-> PyInt(50)]}

\* the dicts from_dict is called with
DictsGiven ==
    {EmptyDict, EmptyDocument, [position |-> PyStr(Middle)],
     [font_size |-> PyInt(36), opacity |-> PyInt(50)],
     [font_size |-> PyInt(36), color |-> PyStr(<<"1", "2", "3">>),
      position |-> PyStr(Center), output_quality |-> PyInt(1)],
     [font_size |-> PyInt(36), color |-> PyStr(White),
      position |-> PyStr(Center), output_quality |-> PyInt(0)]}

\* the YAML files a user wrote by hand: the text of some keyword sets, a
\* font size in quotes, an empty file
UserDocuments ==
    {yaml_dump(d) : d \in {[font_size |-> PyInt(0)], [output_quality |-> PyInt(101)],
                           [position |-> PyStr(Middle)], [position |-> PyStr(Center)],
                           [font_size |-> PyInt(36), opacity |-> PyInt(50)]}}
    \cup {[font_size |-> Scalar("quoted", <<"3", "6">>)], EmptyDocument}

ImageSizes == {<<800, 600>>, <<100, 50>>}
TextSizes == {<<100, 30>>, <<151, 61>>}

HasConfig == "position" \in DOMAIN config

\* WatermarkConfig(**kwargs); the name is bound only if no exception is raised
Call_WatermarkConfig(kwargs) ==
    /\ Enter("WatermarkConfig", "done")
    /\ args' = [kwargs |-> kwargs]
    /\ \E r \in {WatermarkConfig(kwargs)} :
          /\ result' = r
          /\ config' = IF IsError(r) THEN config ELSE r
    /\ UNCHANGED <<date_str, image_path, use_fallback, yaml_file, batch, exit_code, processor>>

\* WatermarkConfig.from_dict(config_dict)
Call_from_dict(config_dict) ==
    /\ Enter("from_dict", "done")
    /\ args' = [kwargs |-> config_dict]
    /\ \E r \in {from_dict(config_dict)} :
          /\ result' = r
          /\ config' = IF IsError(r) THEN config ELSE r
    /\ UNCHANGED <<date_str, image_path, use_fallback, yaml_file, batch, exit_code, processor>>

\* a user writes the file from_yaml is to read
EditYaml(doc) ==
    /\ pc = "idle"
    /\ yaml_file' = YamlFile(doc)
    /\ UNCHANGED <<platform, pc, op, result, fs, log, args, config, batch, exit_code, processor>>
    /\ UNCHANGED resolverVars

\* WatermarkConfig.from_yaml(yaml_path)
Call_from_yaml(readable) ==
    /\ Enter("from_yaml", "done")
    /\ args' = [readable |-> readable]
    /\ result' = from_yaml(yaml_file, readable)
    /\ UNCHANGED <<date_str, image_path, use_fallback, config, yaml_file, batch, exit_code, processor>>

\* config.save_to_yaml(yaml_path): returns None, or raises ValueError
Call_save_to_yaml(writable) ==
    /\ HasConfig
    /\ Enter("save_to_yaml", "done")
    /\ args' = [writable |-> writable]
    /\ yaml_file' = save_to_yaml(config, yaml_file, writable)
    /\ result' = IF writable THEN PyNone ELSE Error("ValueError")
    /\ UNCHANGED <<date_str, image_path, use_fallback, config, batch, exit_code, processor>>

\* config.position = value: the dataclass of line 11 is not frozen, and
\* __post_init__ does not run on assignment
Assign_position(value) ==
    /\ HasConfig
    /\ Enter("setattr", "done")
    /\ args' = [value |-> value]
    /\ config' = [config EXCEPT !.position = value]
    /\ result' = PyNone
    /\ UNCHANGED <<date_str, image_path, use_fallback, yaml_file, batch, exit_code, processor>>

\* processor._calculate_text_position(image_size, text_size), the processor
\* holding the config
Call_calculate_text_position(image_size, text_size) ==
    /\ HasConfig
    /\ Enter("_calculate_text_position", "done")
    /\ args' = [image_size |-> image_size, text_size |-> text_size]
    /\ result' = calculate_text_position(config, image_size, text_size)
    /\ UNCHANGED <<date_str, image_path, use_fallback, config, yaml_file, batch, exit_code, processor>>

NextConfig ==
    \/ \E kwargs \in Kwargs : Call_WatermarkConfig(kwargs)
    \/ \E d \in DictsGiven : Call_from_dict(d)
    \/ \E doc \in UserDocuments : EditYaml(doc)
    \/ \E readable \in BOOLEAN : Call_from_yaml(readable)
    \/ \E writable \in BOOLEAN : Call_save_to_yaml(writable)
    \/ \E value \in valid_positions \cup {PyStr(Middle)} : Assign_position(value)
    \/ \E image_size \in ImageSizes, text_size \in TextSizes :
          Call_calculate_text_position(image_size, text_size)
    \/ Return

SpecConfig == Init /\ [][NextConfig]_vars

----------------------------------------------------------------------------
(* get_original_timestamp and get_date_taken called on one file *)

\* reader.get_original_timestamp(p), then reader.get_date_taken(p, fallback),
\* p an existing file that does not change in between
Call_timestamp_and_date(f, fallback) ==
    /\ pc = "idle"
    /\ op' = "get_original_timestamp, get_date_taken"
    /\ pc' = "done"
    /\ args' = [file |-> f, use_fallback |-> fallback]
    /\ \E afterPil \in {ReportAfterPil([name |-> PhotoName, parent |-> <<PhotoDir>>,
                                        exists |-> TRUE, is_file |-> TRUE], platform, f)} :
       \E pil \in {PilYield(platform, f)} :
       \E ex \in {ExifreadYield(platform, f, pil)} :
       \E fb \in {FallbackYield(f, fallback, pil, ex)} :
          /\ result' = [report |-> ReportAfterMtime(f, ReportAfterExifread(platform, f, afterPil)),
                        date |-> DateReturned(pil, ex, fb),
                        strategy |-> [pil |-> pil, exifread |-> ex, fallback |-> fb]]
          /\ log' = log \o ReportLog(platform, f, afterPil)
                        \o DateLog(platform, f, fallback, pil, ex)
    /\ UNCHANGED <<platform, fs, config, yaml_file, batch, exit_code, processor>>
    /\ UNCHANGED resolverVars

NextFile ==
    \/ \E f \in Files, fallback \in BOOLEAN : Call_timestamp_and_date(f, fallback)
    \/ Return

SpecFile == Init /\ [][NextFile]_vars

----------------------------------------------------------------------------
(* WatermarkProcessor._draw_watermark, lines 145-188 *)

Black == <<"b", "l", "a", "c", "k">>
Red == <<"r", "e", "d">>

\* the ink Pillow draws with for a fill given as a str (ImageDraw.text
\* resolves it with ImageColor.getrgb): the name or "#rgb" or "#rrggbb" in
\* any letter case, anything else a ValueError
HexDigits == <<"0", "1", "2", "3", "4", "5", "6", "7", "8", "9", "a", "b", "c", "d", "e", "f">>
IsHex(c) == \E i \in 1..Len(HexDigits) : HexDigits[i] = c
HexVal(c) == (CHOOSE i \in 1..Len(HexDigits) : HexDigits[i] = c) - 1
RGB(r, g, b) == [rgb |-> <<r, g, b>>]
colormap == (Black :> RGB(0, 0, 0)) @@ (White :> RGB(255, 255, 255)) @@ (Red :> RGB(255, 0, 0))
getrgb_lower(color) ==
    IF color \in DOMAIN colormap THEN colormap[color]
    ELSE IF Len(color) = 4 /\ color[1] = "#" /\ \A i \in 2..4 : IsHex(color[i])
    THEN RGB(17 * HexVal(color[2]), 17 * HexVal(color[3]), 17 * HexVal(color[4]))
    ELSE IF Len(color) = 7 /\ color[1] = "#" /\ \A i \in 2..7 : IsHex(color[i])
    THEN RGB(16 * HexVal(color[2]) + HexVal(color[3]), 16 * HexVal(color[4]) + HexVal(color[5]),
             16 * HexVal(color[6]) + HexVal(color[7]))
    ELSE Error("ValueError")
getrgb(color) == getrgb_lower(Lower(color))

\* line 173: "black" if self.config.color.lower() != "black" else "white"
outline_color(self) == IF Lower(self.color.str) # Black THEN Black ELSE White

\* lines 176-184: dx outside, dy inside, (0, 0) left out
Offsets == <<<<-1, -1>>, <<-1, 0>>, <<-1, 1>>, <<0, -1>>, <<0, 1>>, <<1, -1>>, <<1, 0>>, <<1, 1>>>>

\* one draw.text(xy, text, font=font, fill=fill)
draw_text(xy, fill) == [xy |-> xy, ink |-> getrgb(fill)]

\* lines 173-188: the calls of draw.text made on the image, in their order;
\* a fill Pillow does not know raises ValueError at the call that uses it
draw_watermark(self, image_size, text_size) ==
    Apply(LAMBDA position :
            [calls |-> [i \in 1..8 |->
                          draw_text(<<position[1] + Offsets[i][1],
                                      position[2] + Offsets[i][2]>>, outline_color(self))]
                       \o (IF IsError(getrgb(self.color.str)) THEN <<>>
                           ELSE <<draw_text(position, self.color.str)>>),
             raised |-> IsError(getrgb(self.color.str))],
          calculate_text_position(self, image_size, text_size))

\* the colours and positions of the configs that are drawn with
DrawColors ==
    {PyStr(White), PyStr(Black), PyStr(<<"B", "l", "a", "c", "k">>),
     PyStr(<<"B", "L", "A", "C", "K">>), PyStr(Red),
     PyStr(<<"#", "0", "0", "0", "0", "0", "0">>), PyStr(<<"#", "0", "0", "0">>),
     PyStr(<<"#", "F", "F", "F", "F", "F", "F">>), PyStr(<<"1", "2", "3">>)}
DrawKwargs == [color : DrawColors, position : {PyStr(TopLeft), PyStr(Center), PyStr(BottomRight)}]

\* processor._draw_watermark(image, text), the text measured by textbbox;
\* there is a processor only where Pillow is installed (lines 32-33)
Call_draw_watermark(image_size, text_size) ==
    /\ HasConfig /\ platform.pil
    /\ Enter("_draw_watermark", "done")
    /\ args' = [image_size |-> image_size, text_size |-> text_size]
    /\ result' = draw_watermark(config, image_size, text_size)
    /\ UNCHANGED <<date_str, image_path, use_fallback, config, yaml_file, batch, exit_code, processor>>

NextDraw ==
    \/ \E kwargs \in DrawKwargs : Call_WatermarkConfig(kwargs)
    \/ \E image_size \in ImageSizes, text_size \in TextSizes :
          Call_draw_watermark(image_size, text_size)
    \/ Return

SpecDraw == Init /\ [][NextDraw]_vars

----------------------------------------------------------------------------
(* WatermarkProcessor.process_directory, lines 76-100, and main *)

\* the characters of the file names, in the order of their code points
CodePoints ==
    <<".", "0", "1", "2", "3", "4", "5", "6", "7", "8", "9", "A", "B", "C", "D", "E",
    "F", "G", "H", "I", "J", "K", "L", "M", "N", "O", "P", "Q", "R", "S", "T", "U", "V",
    "W", "X", "Y", "Z", "_", "a", "b", "c", "d", "e", "f", "g", "h", "i", "j", "k", "l",
    "m", "n", "o", "p", "q", "r", "s", "t", "u", "v", "w", "x", "y", "z">>
Ord(c) == CHOOSE i \in 1..Len(CodePoints) : CodePoints[i] = c

\* a < b of two str
StrLess(a, b) ==
    \E i \in 1..(Len(a) + 1) :
        /\ i <= Len(b)
        /\ \A j \in 1..(i - 1) : a[j] = b[j]
        /\ i = Len(a) + 1 \/ Ord(a[i]) < Ord(b[i])

\* sorted(image_files), line 385, of paths with one parent
Sorted(names) ==
    CHOOSE q \in [1..Cardinality(names) -> names] :
        \A i, j \in 1..Cardinality(names) : i < j => StrLess(q[i], q[j])

LogScanError == <<"error", "Error scanning directory">>
LogNoImages == <<"warning", "No supported image files found in">>
LogFound == <<"info", "Found image files to process">>
LogCounts == <<"info", "Processed images successfully">>
LogNoPath == <<"error", "Path does not exist">>

\* directory_path.iterdir(), line 377: the entries the directory came with
\* and what has been created directly inside it since
iterdir(dir, f) ==
    dir.entries
    \cup {[name |-> PathName(d), is_file |-> FALSE] :
             d \in {x \in f.dirs : PathParent(x) = dir.parts /\ x # dir.parts}}
    \cup {[name |-> PathName(w), is_file |-> TRUE] :
             w \in {x \in f.written : PathParent(x) = dir.parts /\ x # dir.parts}}

\* _find_image_files without the test of is_file
find_image_files_AnyEntry(dir, f) ==
    IF dir.scan_raises THEN <<>>
    ELSE Sorted({e.name : e \in {x \in iterdir(dir, f) :
                     Lower(Suffix(x.name)) \in supported_extensions}})

\* WatermarkProcessor._find_image_files, lines 373-385: the names found; an
\* exception of iterdir is logged and leaves the list empty
find_image_files(dir, f) ==
    IF dir.scan_raises THEN <<>>
    ELSE Sorted({e.name : e \in {x \in iterdir(dir, f) :
                     x.is_file /\ Lower(Suffix(x.name)) \in supported_extensions}})

\* WatermarkProcessor.process_single_image, lines 45-74, in one step: date
\* is what get_date_taken returned, o what the filesystem and Pillow did
process_single_image(f, path, date, o) ==
    IF ~is_supported_image_format(path.name)
    THEN [success |-> FALSE, fs |-> f, log |-> <<LogProcessing, LogUnsupported>>,
          drawn |-> {}]
    ELSE IF ~Truthy(date)
    THEN [success |-> FALSE, fs |-> f, log |-> <<LogProcessing, LogNoDateFor>>,
          drawn |-> {}]
    ELSE [success |-> add_watermark_to_image(f, path, o).success,
          fs |-> add_watermark_to_image(f, path, o).fs,
          log |-> <<LogProcessing>> \o add_watermark_to_image(f, path, o).log
                  \o <<IF add_watermark_to_image(f, path, o).success
                       THEN LogProcessed ELSE LogFailed>>,
          drawn |-> add_watermark_to_image(f, path, o).drawn]

\* what get_date_taken returns to process_single_image: None or a date
DatesTaken == {None, <<"2", "0", "2", "3", "-", "0", "8", "-", "1", "5">>}

\* the entries of the directories of the model: three image files, a text
\* file, a directory with the name of an image
DirEntries ==
    {[name |-> <<"a", ".", "j", "p", "g">>, is_file |-> TRUE], [name |-> <<"Z", ".", "P", "N", "G">>, is_file |-> TRUE],
     [name |-> <<"e", ".", "b", "m", "p">>, is_file |-> TRUE], [name |-> <<"c", ".", "t", "x", "t">>, is_file |-> TRUE],
     [name |-> <<"d", ".", "p", "n", "g">>, is_file |-> FALSE]}

\* the paths main is started on: one that does not exist, files, directories
MainPaths ==
    {[parts |-> <<PhotoDir>>, exists |-> FALSE, is_file |-> FALSE, entries |-> {},
      scan_raises |-> FALSE]}
    \cup {[parts |-> Join(parent, name), exists |-> TRUE, is_file |-> TRUE,
           entries |-> {}, scan_raises |-> FALSE] :
             parent \in Parents, name \in {PhotoName, <<"c", ".", "t", "x", "t">>}}
    \cup {[parts |-> parent, exists |-> TRUE, is_file |-> FALSE, entries |-> entries,
           scan_raises |-> FALSE] : parent \in Parents, entries \in SUBSET DirEntries}
    \cup {[parts |-> <<PhotoDir>>, exists |-> TRUE, is_file |-> FALSE,
           entries |-> DirEntries, scan_raises |-> TRUE]}

\* main.py lines 85-91: the choices of --position
choices == {PyStr(TopLeft), PyStr(TopRight), PyStr(BottomLeft), PyStr(BottomRight),
            PyStr(Center)}

\* the command lines of the model
CommandLines ==
    [given : {TRUE}, path : MainPaths, font_size : {PyInt(0), PyInt(36)},
     color : {PyStr(White)}, position : {PyStr(Center), PyStr(Middle)},
     output_quality : {PyInt(95), PyInt(101)}]

\* the Path of a file as _add_watermark_to_image takes it apart
FilePath(parts) ==
    [name |-> PathName(parts), parent |-> PathParent(parts), exists |-> TRUE,
     is_file |-> TRUE]

mainFrame == <<platform, date_str, use_fallback, pilView, exView, mtimeView, consulted,
               strategy, report, yaml_file, processor>>

Call_main(a) ==
    /\ pc = "idle"
    /\ op' = "main"
    /\ pc' = "main_parse"
    /\ args' = a
    /\ UNCHANGED <<result, image_path, fs, log, config, batch, exit_code>>
    /\ UNCHANGED mainFrame

\* main.py line 112, parse_arguments: argparse exits with status 2 on a
\* value that is not among the choices of an option
main_parse ==
    /\ pc = "main_parse"
    /\ IF args.position \notin choices
       THEN pc' = "done" /\ exit_code' = "2"
       ELSE pc' = "main_path" /\ UNCHANGED exit_code
    /\ UNCHANGED <<op, args, result, image_path, fs, log, config, batch>>
    /\ UNCHANGED mainFrame

\* main.py lines 118-121
main_path ==
    /\ pc = "main_path"
    /\ IF ~args.path.exists
       THEN /\ log' = Append(log, LogNoPath)
            /\ pc' = "done"
            /\ exit_code' = "1"
       ELSE /\ pc' = "main_config"
            /\ UNCHANGED <<log, exit_code, processor>>
    /\ UNCHANGED <<op, args, result, image_path, fs, config, batch>>
    /\ UNCHANGED mainFrame

\* main.py lines 124-132: an exception of WatermarkConfig or of
\* WatermarkProcessor (ImportError without Pillow) is not caught: the
\* interpreter prints the traceback and exits with status 1
main_config ==
    /\ pc = "main_config"
    /\ \E c \in {WatermarkConfig([font_size |-> args.font_size, color |-> args.color,
                                 position |-> args.position,
                                 output_quality |-> args.output_quality])} :
          IF IsError(c) \/ ~platform.pil
          THEN pc' = "done" /\ exit_code' = "1" /\ UNCHANGED config
          ELSE pc' = "main_run" /\ config' = c /\ UNCHANGED exit_code
    /\ UNCHANGED <<op, args, result, image_path, fs, log, batch>>
    /\ UNCHANGED mainFrame

\* main.py line 135
main_run ==
    /\ pc = "main_run"
    /\ pc' = IF args.path.is_file THEN "main_single" ELSE "pd_find"
    /\ UNCHANGED <<op, args, result, image_path, fs, log, config, batch, exit_code>>
    /\ UNCHANGED mainFrame

\* main.py lines 136-138
main_single ==
    /\ pc = "main_single"
    /\ \E date \in DatesTaken, o \in AddOutcomes :
         \E r \in {process_single_image(fs, FilePath(args.path.parts), date, o)} :
            /\ image_path' = FilePath(args.path.parts)
            /\ fs' = r.fs
            /\ log' = log \o r.log
            /\ result' = r.success
            /\ batch' = [batch EXCEPT !.drawn = @ \cup r.drawn]
            /\ exit_code' = IF r.success THEN "0" ELSE "1"
    /\ pc' = "done"
    /\ UNCHANGED <<op, args, config>>
    /\ UNCHANGED mainFrame

\* where process_directory returns to: main, or the caller of the method
AfterDirectory == IF op = "main" THEN "main_count" ELSE "done"

\* lines 86-95
pd_find ==
    /\ pc = "pd_find"
    /\ \E image_files \in {find_image_files(args.path, fs)} :
          /\ batch' = [batch EXCEPT !.image_files = image_files,
                                    !.total_count = Len(image_files)]
          /\ IF Len(image_files) = 0
             THEN /\ log' = log \o (IF args.path.scan_raises THEN <<LogScanError>> ELSE <<>>)
                              \o <<LogNoImages>>
                  /\ result' = <<0, 0>>
                  /\ pc' = AfterDirectory
             ELSE /\ log' = Append(log, LogFound)
                  /\ pc' = "pd_file"
                  /\ UNCHANGED result
    /\ UNCHANGED <<op, args, image_path, fs, config, exit_code>>
    /\ UNCHANGED mainFrame

\* the loop counting every turn as a success
pd_file_CountsAll ==
    /\ pc = "pd_file"
    /\ \E date \in DatesTaken, o \in AddOutcomes :
         \E path \in {FilePath(Join(args.path.parts, batch.image_files[batch.next]))} :
           \E r \in {process_single_image(fs, path, date, o)} :
            /\ image_path' = path
            /\ fs' = r.fs
            /\ log' = log \o r.log
            /\ result' = r.success
            /\ batch' = [batch EXCEPT
                           !.next = @ + 1,
                           !.success_count = @ + 1,
                           !.attempted = Append(@, [name |-> path.name, success |-> r.success]),
                           !.drawn = @ \cup r.drawn]
    /\ pc' = IF batch.next = batch.total_count THEN "pd_return" ELSE "pd_file"
    /\ UNCHANGED exit_code
    /\ UNCHANGED <<op, args, config>>
    /\ UNCHANGED mainFrame

\* the loop with process_single_image letting its exception out: the first
\* image that fails ends the run in the except clause of main
pd_file_Propagates ==
    /\ pc = "pd_file"
    /\ \E date \in DatesTaken, o \in AddOutcomes :
         \E path \in {FilePath(Join(args.path.parts, batch.image_files[batch.next]))} :
           \E r \in {process_single_image(fs, path, date, o)} :
            /\ image_path' = path
            /\ fs' = r.fs
            /\ log' = log \o r.log
            /\ result' = r.success
            /\ batch' = [batch EXCEPT
                           !.next = @ + 1,
                           !.success_count = IF r.success THEN @ + 1 ELSE @,
                           !.attempted = Append(@, [name |-> path.name, success |-> r.success]),
                           !.drawn = @ \cup r.drawn]
            /\ IF r.success
               THEN /\ pc' = IF batch.next = batch.total_count THEN "pd_return"
                                                                ELSE "pd_file"
                    /\ UNCHANGED exit_code
               ELSE pc' = "done" /\ exit_code' = "1"
    /\ UNCHANGED <<op, args, config>>
    /\ UNCHANGED mainFrame

\* lines 96-98: one turn of the loop
pd_file ==
    /\ pc = "pd_file"
    /\ \E date \in DatesTaken, o \in AddOutcomes :
         \E path \in {FilePath(Join(args.path.parts, batch.image_files[batch.next]))} :
           \E r \in {process_single_image(fs, path, date, o)} :
            /\ image_path' = path
            /\ fs' = r.fs
            /\ log' = log \o r.log
            /\ result' = r.success
            /\ batch' = [batch EXCEPT
                           !.next = @ + 1,
                           !.success_count = IF r.success THEN @ + 1 ELSE @,
                           !.attempted = Append(@, [name |-> path.name, success |-> r.success]),
                           !.drawn = @ \cup r.drawn]
    /\ pc' = IF batch.next = batch.total_count THEN "pd_return" ELSE "pd_file"
    /\ UNCHANGED <<op, args, config, exit_code>>
    /\ UNCHANGED mainFrame

\* line 100
pd_return ==
    /\ pc = "pd_return"
    /\ result' = <<batch.success_count, batch.total_count>>
    /\ pc' = AfterDirectory
    /\ UNCHANGED <<op, args, image_path, fs, log, config, batch, exit_code>>
    /\ UNCHANGED mainFrame

\* lines 140-144 with the test made on the number of images found
main_count_TestsTotal ==
    /\ pc = "main_count"
    /\ log' = Append(log, LogCounts)
    /\ exit_code' = IF result[2] = 0 THEN "1" ELSE "0"
    /\ pc' = "done"
    /\ UNCHANGED <<op, args, result, image_path, fs, config, batch>>
    /\ UNCHANGED mainFrame

\* main.py lines 140-144; at its end main returns and the status is 0
main_count ==
    /\ pc = "main_count"
    /\ log' = Append(log, LogCounts)
    /\ exit_code' = IF result[1] = 0 THEN "1" ELSE "0"
    /\ pc' = "done"
    /\ UNCHANGED <<op, args, result, image_path, fs, config, batch>>
    /\ UNCHANGED mainFrame

\* one run of the program
NextBatch ==
    \/ \E a \in CommandLines : Call_main(a)
    \/ main_parse
    \/ main_path
    \/ main_config
    \/ main_run
    \/ main_single
    \/ pd_find
    \/ pd_file
    \/ pd_return
    \/ main_count

SpecBatch == Init /\ [][NextBatch]_vars

\* process_directory called twice on the same directory by one processor
RerunDirs ==
    {d \in MainPaths :
        /\ d.exists /\ ~d.is_file /\ d.parts = <<PhotoDir>>
        /\ \/ d.scan_raises
           \/ d.entries = {}
           \/ d.entries = DirEntries
           \/ d.entries = {e \in DirEntries : e.name # <<"e", ".", "b", "m", "p">>}}

\* processor.process_directory(dir); there is a processor only where Pillow
\* is installed (lines 32-33)
Call_process_directory(dir) ==
    /\ pc = "idle"
    /\ platform.pil
    /\ op' = "process_directory"
    /\ pc' = "pd_find"
    /\ args' = [given |-> TRUE, path |-> dir]
    /\ UNCHANGED <<result, image_path, fs, log, config, batch, exit_code>>
    /\ UNCHANGED mainFrame

\* the caller keeps what the first run returned and left, and calls
\* processor.process_directory(dir) again
Call_process_directory_again ==
    /\ pc = "done"
    /\ op = "process_directory"
    /\ "first" \notin DOMAIN args
    /\ args' = [given |-> TRUE, path |-> args.path,
                first |-> [image_files |-> batch.image_files,
                           attempted |-> batch.attempted,
                           result |-> result, fs |-> fs]]
    /\ batch' = NoBatch
    /\ result' = Pending
    /\ log' = <<>>
    /\ pc' = "pd_find"
    /\ UNCHANGED <<op, image_path, fs, config, exit_code>>
    /\ UNCHANGED mainFrame

NextRerun ==
    \/ \E dir \in RerunDirs : Call_process_directory(dir)
    \/ pd_find
    \/ pd_file
    \/ pd_return
    \/ Call_process_directory_again

SpecRerun == Init /\ [][NextRerun]_vars

----------------------------------------------------------------------------

\* the resolver, called on its own
Next ==
    \/ \E s \in DateStrings : Call_parse_date_string(s)
    \/ \E p \in Paths, fb \in BOOLEAN : Call_get_date_taken(p, fb)
    \/ gdt_check
    \/ gdt_pil
    \/ gdt_exifread
    \/ gdt_fallback
    \/ \E p \in Paths : Call_get_original_timestamp(p)
    \/ got_check
    \/ got_pil
    \/ got_exifread
    \/ got_mtime
    \/ Return

Spec == Init /\ [][Next]_vars

\* the processor, which calls the resolver
NextStamp ==
    \/ \E p \in ImagePaths : Call_process_single_image(p)
    \/ psi_format
    \/ gdt_check
    \/ gdt_pil
    \/ gdt_exifread
    \/ gdt_fallback
    \/ psi_date
    \/ psi_add
    \/ Return

SpecStamp == Init /\ [][NextStamp]_vars

\* a processor built with show_watermark_info=True, used for image after
\* image
InfoPaths ==
    {p \in ImagePaths :
        /\ p.exists = p.is_file
        /\ p.name \in {<<"a", ".", "j", "p", "g">>, <<"b", ".", "J", "P", "G">>,
                       <<"c", ".", "t", "x", "t">>}}

\* WatermarkProcessor(config, logger, show_watermark_info=True), lines 25-33,
\* built before any image is processed
Call_WatermarkProcessor(show_watermark_info) ==
    /\ platform.pil
    /\ pc = "idle"
    /\ processor = MainProcessor
    /\ fs.written = {}
    /\ processor' = WatermarkProcessor(show_watermark_info)
    /\ UNCHANGED <<platform, pc, op, result, fs, log, args, config, yaml_file, batch,
                   exit_code>>
    /\ UNCHANGED resolverVars

NextInfo ==
    \/ Call_WatermarkProcessor(TRUE)
    \/ \E p \in InfoPaths : Call_process_single_image(p)
    \/ psi_format
    \/ psi_get_date_taken
    \/ psi_date
    \/ psi_add
    \/ Return

SpecInfo == Init /\ [][NextInfo]_vars

----------------------------------------------------------------------------
(* Claims.  What a claim expects of a date string is written down here     *)
(* character by character, apart from the operators that model the code.   *)

Done(name) == pc = "done" /\ op = name
ExistingFile == image_path.exists /\ image_path.is_file

\* s reads "YYYY:MM:DD HH:MM:SS", all digits, and YYYY:MM:DD is a calendar date
IsExifDateTime(s) ==
    /\ Len(s) = 19
    /\ s[5] = ":" /\ s[8] = ":" /\ s[11] = " " /\ s[14] = ":" /\ s[17] = ":"
    /\ \A i \in (1..19) \ {5, 8, 11, 14, 17} : s[i] \in Digits
    /\ IntOf(SubSeq(s, 1, 4)) >= 1
    /\ IntOf(SubSeq(s, 6, 7)) \in 1..12
    /\ IntOf(SubSeq(s, 9, 10)) >= 1
    /\ IntOf(SubSeq(s, 9, 10)) <= DaysInMonth(IntOf(SubSeq(s, 1, 4)), IntOf(SubSeq(s, 6, 7)))

\* "YYYY-MM-DD" with the year, month and day of "YYYY:MM:DD ..."
CalendarDate(s) == SubSeq(s, 1, 4) \o <<"-">> \o SubSeq(s, 6, 7) \o <<"-">> \o SubSeq(s, 9, 10)

\* a strategy was consulted and gave a date
Yielded(x) == x # NotTried /\ Truthy(x)

\* C1: when Pillow reads an Exif sub-block whose DateTimeOriginal is a
\* parseable "YYYY:MM:DD HH:MM:SS", get_date_taken returns the calendar date
\* of that tag, whatever DateTimeDigitized and the top-level tags hold.
C1_OriginalTakesPriority ==
    (/\ Done("get_date_taken")
     /\ pilView.read /\ pilView.opens /\ ~pilView.ifdRaises
     /\ Has(pilView.ifd, TagDateTimeOriginal)
     /\ IsExifDateTime(pilView.ifd[TagDateTimeOriginal]))
    => result = CalendarDate(pilView.ifd[TagDateTimeOriginal])

\* DateTimeOriginal=2023:08:15 with DateTime=2020:01:01 resolved to 2023-08-15
C1_Witness ==
    /\ Done("get_date_taken")
    /\ pilView.read /\ pilView.opens /\ ~pilView.ifdRaises
    /\ Has(pilView.ifd, TagDateTimeOriginal)
    /\ pilView.ifd[TagDateTimeOriginal] = ExifText(2023, 8, 15)
    /\ Has(pilView.ifd, TagDateTimeDigitized)
    /\ pilView.ifd[TagDateTimeDigitized] = ExifText(2020, 1, 1)
    /\ Has(pilView.exifdata, TagDateTime)
    /\ pilView.exifdata[TagDateTime] = ExifText(2020, 1, 1)
    /\ result = <<"2", "0", "2", "3", "-", "0", "8", "-", "1", "5">>

\* the sources in the order the claim gives them
SourceOrder == <<"pil", "exifread", "fallback">>
Rank(src) == CHOOSE i \in 1..3 : SourceOrder[i] = src

\* C2: get_date_taken consults Pillow, then exifread, then the modification
\* time, each once and in that order; a later source is consulted only if
\* every earlier one yielded no date, and the value returned is the value
\* of the first source that yielded one.
C2_FirstSourceWins ==
    (op = "get_date_taken" /\ ExistingFile) =>
       /\ \A i, j \in 1..Len(consulted) : i < j => Rank(consulted[i]) < Rank(consulted[j])
       /\ \A src \in {"pil", "exifread", "fallback"} :
             (strategy[src] # NotTried) <=> (\E i \in 1..Len(consulted) : consulted[i] = src)
       /\ strategy.exifread # NotTried => ~Yielded(strategy.pil)
       /\ strategy.fallback # NotTried =>
             ~Yielded(strategy.pil) /\ ~Yielded(strategy.exifread)
       /\ pc = "done" =>
             result = IF Yielded(strategy.pil) THEN strategy.pil
                      ELSE IF Yielded(strategy.exifread) THEN strategy.exifread
                      ELSE IF Yielded(strategy.fallback) THEN strategy.fallback
                      ELSE None

\* the secondary strategy's date returned after the primary yielded none
C2_Witness ==
    /\ Done("get_date_taken")
    /\ consulted = <<"pil", "exifread">>
    /\ strategy.pil = None
    /\ result = strategy.exifread
    /\ result = <<"2", "0", "2", "0", "-", "0", "1", "-", "0", "1">>

\* "YYYY-MM-DD" of a date, every part zero padded
IsoText(date) == Pad4(date.y) \o <<"-">> \o Pad2(date.m) \o <<"-">> \o Pad2(date.d)

\* an existing file, no strategy yielded a date
NoMetadataDate ==
    /\ Done("get_date_taken") /\ ExistingFile
    /\ ~Yielded(strategy.pil) /\ ~Yielded(strategy.exifread)

\* C3 as stated: on an existing file for which no metadata strategy yields
\* a date, with use_fallback=True, get_date_taken returns the file's
\* modification date formatted "YYYY-MM-DD".
C3_Original ==
    (NoMetadataDate /\ use_fallback) =>
        /\ mtimeView.read /\ ~mtimeView.raises
        /\ result = IsoText(mtimeView.date)

\* C3 as amended: it returns the file's modification date formatted
\* "YYYY-MM-DD" when the modification time can be read; when reading or
\* converting it raises, the error is swallowed and the result is None.
C3_FallbackDate ==
    (NoMetadataDate /\ use_fallback) =>
        /\ mtimeView.read
        /\ ~mtimeView.raises => result = IsoText(mtimeView.date)
        /\ mtimeView.raises => result = None

\* the modification date 2024-02-29 returned after both strategies yielded none
C3_Witness ==
    /\ NoMetadataDate /\ use_fallback
    /\ consulted = <<"pil", "exifread", "fallback">>
    /\ ~mtimeView.raises
    /\ result = <<"2", "0", "2", "4", "-", "0", "2", "-", "2", "9">>

\* C4: on an existing file for which no metadata strategy yields a date,
\* with use_fallback=False, get_date_taken returns None and the modification
\* time is never read.
C4_NoFallback ==
    (op = "get_date_taken" /\ ExistingFile /\ ~use_fallback) =>
        /\ ~mtimeView.read
        /\ strategy.fallback = NotTried
        /\ \A i \in 1..Len(consulted) : consulted[i] # "fallback"
        /\ (pc = "done" /\ ~Yielded(strategy.pil) /\ ~Yielded(strategy.exifread))
              => result = None

\* both strategies consulted, none yielded, fallback off: None
C4_Witness ==
    /\ NoMetadataDate /\ ~use_fallback
    /\ consulted = <<"pil", "exifread">>
    /\ result = None

FileNotFoundError == <<"FileNotFoundError">>

\* C5 as stated: on a path that does not exist or is not a regular file
\* get_date_taken fails with a FileNotFound outcome, which is not the
\* NotFound (None) result of an existing file without a date.
C5_Original ==
    (Done("get_date_taken") /\ ~ExistingFile) => result = FileNotFoundError

\* C5 as amended: on such a path get_date_taken returns None, the value it
\* also returns for an existing file without a date, after logging the
\* error "Image file not found"; no extraction strategy and no fallback is
\* attempted.
C5_MissingFile ==
    (op = "get_date_taken" /\ ~ExistingFile /\ pc # "gdt_check") =>
        /\ pc = "done"
        /\ result = None
        /\ log = <<LogNotFound>>
        /\ consulted = <<>>
        /\ strategy = NoStrategy
        /\ ~pilView.read /\ ~exView.read /\ ~mtimeView.read

\* a directory given as the path
C5_Witness ==
    /\ Done("get_date_taken")
    /\ image_path.exists /\ ~image_path.is_file
    /\ result = None
    /\ consulted = <<>>

\* C6: for every string "YYYY:MM:DD HH:MM:SS" that denotes a valid
\* calendar date _parse_date_string returns "YYYY-MM-DD" with the same
\* year, month and day.
C6_Original ==
    (Done("_parse_date_string") /\ date_str # None /\ IsExifDateTime(date_str))
        => result = CalendarDate(date_str)

\* what the code does give: the claimed text for every such string whose
\* year is 1000 or later; for an earlier year the same calendar date, its
\* year written with four digits only where strftime pads %Y
ExifDateTimeFromYear1000 ==
    (Done("_parse_date_string") /\ date_str # None /\ IsExifDateTime(date_str)) =>
        /\ (IntOf(SubSeq(date_str, 1, 4)) >= 1000 \/ platform.padYear)
              => result = CalendarDate(date_str)
        /\ SubSeq(result, Len(result) - 5, Len(result)) = SubSeq(CalendarDate(date_str), 5, 10)
        /\ IntOf(SubSeq(result, 1, Len(result) - 6)) = IntOf(SubSeq(date_str, 1, 4))

\* the date the claimed order of formats gives: the first that parses of
\* YYYY:MM:DD on the part before the first space, then YYYY-MM-DD,
\* YYYY/MM/DD, DD/MM/YYYY on the first 10 characters
ClaimedDate(s) ==
    IF ~Truthy(s) THEN None
    ELSE IF Strptime(SplitFirst(s, " "), ExifFmt).ok
         THEN Strftime(Strptime(SplitFirst(s, " "), ExifFmt))
    ELSE IF Strptime(Prefix(s, 10), IsoFmt).ok THEN Strftime(Strptime(Prefix(s, 10), IsoFmt))
    ELSE IF Strptime(Prefix(s, 10), SlashFmt).ok
         THEN Strftime(Strptime(Prefix(s, 10), SlashFmt))
    ELSE IF Strptime(Prefix(s, 10), DmyFmt).ok THEN Strftime(Strptime(Prefix(s, 10), DmyFmt))
    ELSE None

\* C7: _parse_date_string tries the formats in the order YYYY:MM:DD with an
\* optional time, YYYY-MM-DD, YYYY/MM/DD, DD/MM/YYYY and returns the date of
\* the first that parses; a string that fails an earlier format and parses
\* under a later one still yields its date.
C7_FirstFormatWins ==
    Done("_parse_date_string") => result = ClaimedDate(date_str)

\* C8: in every report get_original_timestamp returns, exif_found=true
\* implies that datetime_original, datetime_digitized or datetime_modified
\* is non-empty.
C8_ExifFoundHasDate ==
    (Done("get_original_timestamp") /\ ExistingFile) =>
        (result.exif_found => \E f \in DateFields : Truthy(result[f]))

InLog(entry) == \E i \in 1..Len(log) : log[i] = entry

\* C9: on an existing file get_date_taken never propagates an error; a
\* strategy that fails inside counts as having produced nothing, and
\* resolution goes on with what comes next, down to the fallback.
C9_ErrorsSwallowed ==
    /\ Done("_parse_date_string") => ~Raised(result)
    /\ (op = "get_date_taken" /\ ExistingFile) =>
          /\ ~Raised(result)
          /\ \A src \in {"pil", "exifread", "fallback"} : ~Raised(strategy[src])
          /\ (pc = "done" /\ result = None) =>
                /\ platform.pil => strategy.pil = None
                /\ platform.exifread => strategy.exifread = None
                /\ use_fallback => strategy.fallback = None
          /\ (pc = "done" /\ InLog(LogPilError)) =>
                /\ strategy.pil = None
                /\ platform.exifread => strategy.exifread # NotTried
                /\ (~Yielded(strategy.exifread) /\ use_fallback)
                      => strategy.fallback # NotTried
          /\ (pc = "done" /\ InLog(LogExError)) =>
                /\ strategy.exifread = None
                /\ use_fallback => strategy.fallback # NotTried

\* Image.open and exifread both raised, and the fallback date was returned
C9_Witness ==
    /\ Done("get_date_taken") /\ ExistingFile
    /\ InLog(LogPilError) /\ InLog(LogExError)
    /\ consulted = <<"pil", "exifread", "fallback">>
    /\ result = <<"1", "9", "9", "9", "-", "1", "2", "-", "3", "1">>

\* the extension as the claim reads it: the letters after the last dot of
\* the name, in lower case; none when the name has no dot past its start
ExtensionOf(name) ==
    IF LastIndexOf(name, ".") > 1 /\ LastIndexOf(name, ".") < Len(name)
    THEN Lower(SubSeq(name, LastIndexOf(name, ".") + 1, Len(name)))
    ELSE <<>>

AllowList ==
    {<<"j", "p", "g">>, <<"j", "p", "e", "g">>, <<"p", "n", "g">>,
     <<"t", "i", "f", "f">>, <<"t", "i", "f">>, <<"b", "m", "p">>}

\* C10: process_single_image on a file whose extension, compared without
\* regard to case, is not in the allow-list returns False at once: no date
\* is resolved, no output directory is created, no file is written.
C10_UnsupportedRejected ==
    [][(pc = "psi_format" /\ ExtensionOf(image_path.name) \notin AllowList) =>
          /\ pc' = "done"
          /\ result' = FALSE
          /\ fs' = fs
          /\ consulted' = <<>>
          /\ strategy' = NoStrategy
          /\ ~pilView'.read /\ ~exView'.read /\ ~mtimeView'.read
          /\ log' = <<LogProcessing, LogUnsupported>>]_vars

\* "c.txt" rejected while no output directory exists
C10_Witness ==
    /\ Done("process_single_image")
    /\ image_path.name = <<"c", ".", "t", "x", "t">>
    /\ image_path.exists /\ image_path.is_file
    /\ result = FALSE
    /\ consulted = <<>>
    /\ fs = [dirs |-> {}, written |-> {}]

\* <parent>/<parent-basename>_watermark, the parent given by its parts
ClaimedOutputDir(parent) ==
    parent \o <<(IF parent = <<>> \/ parent = <<Root>> THEN <<>> ELSE parent[Len(parent)])
                \o WatermarkSuffix>>

\* C11: a source file <parent>/<name.ext> that is stamped successfully is
\* written to exactly <parent>/<parent-basename>_watermark/<name.ext>; that
\* directory exists afterwards, whether it was created or was there already,
\* and no other file is written.
C11_OutputPath ==
    [][(pc \in {"main_single", "pd_file"} /\ result' = TRUE) =>
          /\ ClaimedOutputDir(image_path'.parent) \in fs'.dirs
          /\ fs'.dirs \ fs.dirs \subseteq {ClaimedOutputDir(image_path'.parent)}
          /\ ClaimedOutputDir(image_path'.parent) \o <<image_path'.name>> \in fs'.written
          /\ fs'.written \ fs.written
                \subseteq {ClaimedOutputDir(image_path'.parent) \o <<image_path'.name>>}]_vars

\* /p/Z.PNG and /p/a.jpg stamped to /p/p_watermark/, which the second found
\* in place
C11_Witness ==
    /\ Done("main")
    /\ args.path.parts = <<Root, PhotoDir>>
    /\ fs.dirs = {<<Root, PhotoDir, <<"p", "_", "w", "a", "t", "e", "r", "m", "a", "r", "k">>>>}
    /\ fs.written =
          {<<Root, PhotoDir, <<"p", "_", "w", "a", "t", "e", "r", "m", "a", "r", "k">>,
             <<"Z", ".", "P", "N", "G">>>>,
           <<Root, PhotoDir, <<"p", "_", "w", "a", "t", "e", "r", "m", "a", "r", "k">>,
             <<"a", ".", "j", "p", "g">>>>}
    /\ result = <<2, 2>>

\* floor(n / 2)
FloorHalf(n) == CHOOSE k \in -1000..1000 : 2 * k <= n /\ n < 2 * k + 2

\* the placement the anchor table of the claim gives
ClaimedPosition(anchor, W, H, w, h) ==
    IF anchor = PyStr(TopLeft) THEN <<20, 20>>
    ELSE IF anchor = PyStr(TopRight) THEN <<W - w - 20, 20>>
    ELSE IF anchor = PyStr(BottomLeft) THEN <<20, H - h - 20>>
    ELSE IF anchor = PyStr(BottomRight) THEN <<W - w - 20, H - h - 20>>
    ELSE <<FloorHalf(W - w), FloorHalf(H - h)>>

FiveAnchors ==
    {PyStr(TopLeft), PyStr(TopRight), PyStr(BottomLeft), PyStr(BottomRight), PyStr(Center)}

\* C12: for every image size (W,H) and text size (w,h)
\* _calculate_text_position returns (20,20) for top-left, (W-w-20, 20) for
\* top-right, (20, H-h-20) for bottom-left, (W-w-20, H-h-20) for
\* bottom-right and (floor((W-w)/2), floor((H-h)/2)) for center.
C12_AnchorTable ==
    (Done("_calculate_text_position") /\ config.position \in FiveAnchors) =>
        result = ClaimedPosition(config.position, args.image_size[1], args.image_size[2],
                                 args.text_size[1], args.text_size[2])

\* 800x600 with a 100x30 text, center: (350, 285)
C12_Witness ==
    /\ Done("_calculate_text_position")
    /\ config.position = PyStr(Center)
    /\ args.image_size = <<800, 600>> /\ args.text_size = <<100, 30>>
    /\ result = <<350, 285>>

\* a dict that gives a font size <= 0, a quality outside 1..100 or a
\* position that is none of the five anchors
InvalidGiven(d) ==
    \/ "font_size" \in DOMAIN d /\ d.font_size.kind = "int" /\ d.font_size.int <= 0
    \/ "output_quality" \in DOMAIN d /\ d.output_quality.kind = "int"
          /\ (d.output_quality.int < 1 \/ d.output_quality.int > 100)
    \/ "position" \in DOMAIN d /\ d.position \notin FiveAnchors

\* C13: constructing a WatermarkConfig, directly, via from_dict or via
\* from_yaml, with a font size <= 0, a quality outside 1..100 or a position
\* not among the five anchors raises an error and yields no config; a config
\* that is constructed holds every given value as given.
C13_InvalidRejected ==
    /\ (Done("WatermarkConfig") \/ Done("from_dict")) =>
          /\ InvalidGiven(args.kwargs) => IsError(result)
          /\ ~IsError(result) =>
                \A f \in DOMAIN args.kwargs : result[f] = args.kwargs[f]
    /\ (Done("from_yaml") /\ yaml_file.exists) =>
          /\ InvalidGiven(yaml_safe_load(yaml_file.doc)) => IsError(result)
          /\ ~IsError(result) =>
                \A f \in DOMAIN yaml_safe_load(yaml_file.doc) :
                    result[f] = yaml_safe_load(yaml_file.doc)[f]

\* output_quality=101 with every other field valid: an error, no config
C13_Witness ==
    /\ Done("WatermarkConfig")
    /\ DOMAIN args.kwargs = ConfigFields
    /\ args.kwargs.output_quality = PyInt(101)
    /\ args.kwargs.font_size = PyInt(36)
    /\ args.kwargs.position = PyStr(TopLeft)
    /\ IsError(result)
    /\ ~HasConfig

\* the validity rules of construction
ValidConfig(c) ==
    /\ c.font_size.kind = "int" /\ c.font_size.int > 0
    /\ c.output_quality.kind = "int"
    /\ c.output_quality.int >= 1 /\ c.output_quality.int <= 100
    /\ c.position \in FiveAnchors

\* C14 as stated: a WatermarkConfig is immutable after construction, so the
\* config a WatermarkProcessor holds satisfies the validity rules in every
\* reachable state and the unknown-position branch of
\* _calculate_text_position is never reached.
C14_Original ==
    HasConfig => ValidConfig(config)

\* C14 as amended: a WatermarkConfig is validated when it is constructed and
\* only then; no step but an assignment to one of its fields makes the
\* config at hand invalid, and with a valid config _calculate_text_position
\* does not reach its unknown-position branch; after an assignment of an
\* unknown position it reaches it and returns the bottom-right placement.
C14_ValidUnlessAssigned ==
    [][/\ op' # "setattr" => (config' = config \/ ValidConfig(config'))
       /\ (pc = "idle" /\ op' = "_calculate_text_position") =>
             IF ValidConfig(config)
             THEN config.position \in DOMAIN position_map(args'.image_size, args'.text_size)
             ELSE result' = ClaimedPosition(PyStr(BottomRight),
                                args'.image_size[1], args'.image_size[2],
                                args'.text_size[1], args'.text_size[2])]_vars

\* position assigned "middle" after construction: the bottom-right placement
C14_Witness ==
    /\ Done("_calculate_text_position")
    /\ config.position = PyStr(Middle)
    /\ args.image_size = <<800, 600>> /\ args.text_size = <<100, 30>>
    /\ result = <<680, 550>>

\* C15: for every valid config c, save_to_yaml then from_yaml, and
\* from_dict(to_dict(c)), yield a config equal to c in font_size, color,
\* position and output_quality, with no field lost or added.
C15_RoundTrip ==
    /\ (HasConfig /\ ValidConfig(config)) => from_dict(to_dict(config)) = config
    /\ (Done("save_to_yaml") /\ args.writable /\ ValidConfig(config)) =>
          /\ yaml_file.exists
          /\ DOMAIN yaml_file.doc = ConfigFields
    /\ (/\ Done("from_yaml") /\ args.readable
        /\ HasConfig /\ ValidConfig(config)
        /\ yaml_file = save_to_yaml(config, NoFile, TRUE)) =>
          /\ ~IsError(result)
          /\ DOMAIN result = ConfigFields
          /\ \A f \in ConfigFields : result[f] = config[f]

\* the color "123", written in quotes, read back as the str "123"
C15_Witness ==
    /\ Done("from_yaml") /\ args.readable
    /\ HasConfig /\ ValidConfig(config)
    /\ config.color = PyStr(<<"1", "2", "3">>)
    /\ yaml_file = save_to_yaml(config, NoFile, TRUE)
    /\ yaml_file.doc.color.style = "quoted"
    /\ result = config

\* a directory run of main that has come to process_directory
DirectoryRun == op = "main" /\ HasConfig /\ ~args.path.is_file

\* the supported files of a directory, as the claims read them
SupportedNames(entries) ==
    {e.name : e \in {x \in entries : x.is_file /\ ExtensionOf(x.name) \in AllowList}}

Successes == {i \in 1..Len(batch.attempted) : batch.attempted[i].success}

C17_EmptyDirectory ==
    (/\ Done("main") /\ DirectoryRun
     /\ ~args.path.scan_raises
     /\ SupportedNames(args.path.entries) = {}) =>
        /\ result = <<0, 0>>
        /\ batch.attempted = <<>>
        /\ exit_code = "0"

\* the records a call added to the log
Logged(before, after) == {after[i] : i \in (Len(before) + 1)..Len(after)}

\* C18: process_single_image never raises: an exception of the creation of
\* the output directory, of the load, of the drawing or of the save is
\* logged and turned into the result False, and within process_directory
\* the loop goes on to the next image after a failing one.
C18_FailuresContained ==
    [][/\ pc = "main_single" =>
             /\ pc' = "done"
             /\ exit_code' \in {"0", "1"}
             /\ result' \in BOOLEAN
             /\ Logged(log, log') \cap {LogMkdirError, LogAddError} # {} => result' = FALSE
       /\ pc = "pd_file" =>
             /\ exit_code' = Running
             /\ batch'.next = batch.next + 1
             /\ pc' = IF batch.next < batch.total_count THEN "pd_file" ELSE "pd_return"
             /\ result' \in BOOLEAN
             /\ Logged(log, log') \cap {LogMkdirError, LogAddError} # {} => result' = FALSE]_vars

\* the first image failed in _add_watermark_to_image, the second was stamped
C18_Witness ==
    /\ Done("main") /\ DirectoryRun
    /\ Len(batch.attempted) = 2
    /\ ~batch.attempted[1].success /\ batch.attempted[2].success
    /\ \E i \in 1..Len(log) : log[i] = LogAddError
    /\ exit_code = "0"

\* the cases of the claim: the path does not exist, no image was processed
\* successfully, an error was not caught
MissingPath == ~args.path.exists
UncaughtError == args.path.exists /\ (InvalidGiven(args) \/ ~platform.pil)
ZeroSuccess ==
    /\ HasConfig
    /\ IF args.path.is_file THEN result = FALSE ELSE result[1] = 0

\* C19 as stated: main exits with code 1 exactly when the input path does
\* not exist, a batch ends with zero successfully processed images or an
\* uncaught error occurs; in every other run it exits with code 0.
C19_Original ==
    Done("main") =>
        /\ exit_code \in {"0", "1"}
        /\ exit_code = "1" <=> (MissingPath \/ UncaughtError \/ ZeroSuccess)

\* C19 as amended: main exits with code 2 when the argument parser rejects
\* the command line; otherwise with code 1 exactly when the input path does
\* not exist, an error is not caught, or no image was processed
\* successfully (a single file for which process_single_image returned
\* False, a directory run with success_count 0); with code 0 in every other
\* run.
C19_ExitCodes ==
    Done("main") =>
        IF args.position \notin FiveAnchors
        THEN exit_code = "2"
        ELSE /\ exit_code \in {"0", "1"}
             /\ exit_code = "1" <=> (MissingPath \/ UncaughtError \/ ZeroSuccess)

\* --position middle on an existing path: exit code 2
C19_Witness ==
    /\ Done("main")
    /\ args.path.exists
    /\ args.position = PyStr(Middle)
    /\ args.font_size = PyInt(36) /\ args.output_quality = PyInt(95)
    /\ exit_code = "2"

\* the source files of a run of main
SourcePaths ==
    IF args.path.is_file THEN {args.path.parts}
    ELSE {Join(args.path.parts, e.name) : e \in args.path.entries}

\* C20: whatever process_single_image returns, no source file is written,
\* the output path differing from the source path, and the text is drawn
\* on the copy of the loaded image only.
C20_SourceUntouched ==
    (op = "main" /\ pc # "main_parse") =>
        /\ \A src \in SourcePaths : src \notin fs.written
        /\ batch.drawn \subseteq {WatermarkedImage}
        /\ OpenedImage \notin batch.drawn

\* a.jpg stamped: the output written, the source not
C20_Witness ==
    /\ Done("main") /\ HasConfig
    /\ args.path.is_file
    /\ args.path.parts = <<PhotoName>>
    /\ result = TRUE
    /\ fs.written = {<<WatermarkSuffix, PhotoName>>}
    /\ batch.drawn = {WatermarkedImage}

\* the tags of a list that a dict holds with a calendar date, and the
\* calendar date of the first of them
Dated(dict, tags) ==
    {i \in 1..Len(tags) : Has(dict, tags[i]) /\ IsExifDateTime(dict[tags[i]])}
ClaimedFromTags(dict, tags) ==
    IF Dated(dict, tags) = {} THEN None
    ELSE CalendarDate(dict[tags[CHOOSE i \in Dated(dict, tags) :
                                    \A j \in Dated(dict, tags) : i <= j]])

SubBlockTags == <<TagDateTimeOriginal, TagDateTimeDigitized>>
TopLevelTags == <<TagDateTimeOriginal, TagDateTimeDigitized, TagDateTime>>

\* Pillow has just been consulted on a file it opens, with metadata
PilConsulted ==
    /\ op = "get_date_taken"
    /\ pilView.read /\ pilView.opens /\ NonEmpty(pilView.exifdata)
    /\ strategy.pil # NotTried

\* C21 as stated: in _get_date_with_pil the top-level tags are used only if
\* the Exif sub-block is absent, empty or cannot be read: when a non-empty
\* sub-block was read the date is the sub-block's and never comes from the
\* top-level tags; when the sub-block cannot be accessed the top-level tags
\* are tried in the order DateTimeOriginal, DateTimeDigitized, DateTime.
C21_Original ==
    PilConsulted =>
        IF ~pilView.ifdRaises /\ NonEmpty(pilView.ifd)
        THEN strategy.pil = ClaimedFromTags(pilView.ifd, SubBlockTags)
        ELSE strategy.pil = ClaimedFromTags(pilView.exifdata, TopLevelTags)

\* C21 as amended: the top-level tags are used whenever the Exif sub-block
\* gave no date: it is absent, empty, cannot be read, or none of its
\* DateTimeOriginal and DateTimeDigitized parses; they are then tried in
\* the order DateTimeOriginal, DateTimeDigitized, DateTime.  When the
\* sub-block gave a date, that date is returned.
C21_TopLevelFallback ==
    PilConsulted =>
        IF ~pilView.ifdRaises /\ ClaimedFromTags(pilView.ifd, SubBlockTags) # None
        THEN strategy.pil = ClaimedFromTags(pilView.ifd, SubBlockTags)
        ELSE strategy.pil = ClaimedFromTags(pilView.exifdata, TopLevelTags)

\* a sub-block with DateTimeOriginal=0000:00:00 only, and the date of the
\* top-level DateTime returned
C21_Witness ==
    /\ PilConsulted
    /\ ~pilView.ifdRaises
    /\ DOMAIN pilView.ifd = {TagDateTimeOriginal}
    /\ pilView.ifd[TagDateTimeOriginal] = ExifText(0, 0, 0)
    /\ DOMAIN pilView.exifdata = {TagDateTime, TagExifIFD}
    /\ pilView.exifdata[TagDateTime] = ExifText(2023, 8, 15)
    /\ strategy.pil = <<"2", "0", "2", "3", "-", "0", "8", "-", "1", "5">>

ExifreadTags == <<ExDateTimeOriginal, ExDateTimeDigitized, ExDateTime>>

\* exifread has just been consulted on a file it reads
ExifreadConsulted ==
    /\ op = "get_date_taken"
    /\ exView.read /\ exView.opens
    /\ strategy.exifread # NotTried

\* C22: _get_date_with_exifread tries the tags in the order
\* DateTimeOriginal, DateTimeDigitized, DateTime, and a value of an earlier
\* tag that does not parse does not end the strategy: it returns the date
\* of the first tag in that order whose value parses.
C22_FirstParsingTag ==
    ExifreadConsulted =>
        strategy.exifread = ClaimedFromTags(exView.tags, ExifreadTags)

\* a comes before b in ascending order of name
NameBefore(a, b) ==
    \E i \in 1..Len(b) :
        /\ \A j \in 1..(i - 1) : j <= Len(a) /\ a[j] = b[j]
        /\ i > Len(a) \/ Ord(a[i]) < Ord(b[i])

\* the place of a name among the supported files of the directory
PlaceOf(name) ==
    1 + Cardinality({n \in SupportedNames(args.path.entries) : NameBefore(n, name)})

InProcessDirectory == DirectoryRun /\ pc \in {"pd_file", "pd_return", "main_count"}

\* the files attempted so far are the first of the supported files in
\* ascending order, one after the other, and all of them once the loop ended
InOrderOnce ==
    /\ \A i \in 1..Len(batch.attempted) :
          /\ batch.attempted[i].name \in SupportedNames(args.path.entries)
          /\ PlaceOf(batch.attempted[i].name) = i
    /\ pc = "pd_file" => Len(batch.attempted) = batch.next - 1
    /\ pc # "pd_file" =>
          Len(batch.attempted) = Cardinality(SupportedNames(args.path.entries))

InkBlack == [rgb |-> <<0, 0, 0>>]
InkWhite == [rgb |-> <<255, 255, 255>>]

\* the ink of the colours of the model, as a reader of the colour sees it
ClaimedInk(color) ==
    CASE color \in {Black, <<"B", "l", "a", "c", "k">>, <<"B", "L", "A", "C", "K">>,
                    <<"#", "0", "0", "0", "0", "0", "0">>, <<"#", "0", "0", "0">>} -> InkBlack
      [] color \in {White, <<"#", "F", "F", "F", "F", "F", "F">>} -> InkWhite
      [] color = Red -> [rgb |-> <<255, 0, 0>>]

\* C24: _draw_watermark draws the text in the outline colour at the 8
\* neighbours of the computed position, then the fill text once at the
\* position; the outline is black unless the fill colour is itself black,
\* written in any letter case of the name or in hex, and then it is white.
C24_Outline ==
    (Done("_draw_watermark") /\ ~result.raised) =>
        /\ Len(result.calls) = 9
        /\ {result.calls[i].xy : i \in 1..8}
              = {<<result.calls[9].xy[1] + dx, result.calls[9].xy[2] + dy>> :
                     dx \in {-1, 0, 1}, dy \in {-1, 0, 1}} \ {result.calls[9].xy}
        /\ result.calls[9].xy = ClaimedPosition(config.position, args.image_size[1], args.image_size[2],
                                 args.text_size[1], args.text_size[2])
        /\ result.calls[9].ink = ClaimedInk(config.color.str)
        /\ \A i \in 1..8 :
              result.calls[i].ink = IF ClaimedInk(config.color.str) = InkBlack
                                    THEN InkWhite ELSE InkBlack

\* C25: whenever process_single_image returns False for an image, the call
\* has left the filesystem as it found it: no output directory was created
\* and no output file was written for that image.
C25_FailureLeavesNoTrace ==
    [][(op = "process_single_image" /\ pc # "done" /\ pc' = "done" /\ result' = FALSE)
          => fs' = fs]_vars

\* the calendar dates of the date fields of a report
ReportDates(info) ==
    {CalendarDate(info[k]) :
        k \in {x \in DateFields : info[x] # None /\ IsExifDateTime(info[x])}}

\* C26: get_original_timestamp and get_date_taken agree on the same
\* unchanged file: when the report has exif_found=true with source S,
\* get_date_taken returns a date that strategy S extracted from one of the
\* date fields of the report; when it has exif_found=false, get_date_taken
\* returns the fallback date, or None when the fallback is disabled.
C26_Agree ==
    Done("get_original_timestamp, get_date_taken") =>
        IF result.report.exif_found
        THEN /\ result.date \in ReportDates(result.report)
             /\ result.report.source = SourcePIL => result.date = result.strategy.pil
             /\ result.report.source = SourceExifread
                   => result.date = result.strategy.exifread
        ELSE /\ ~Gave(result.strategy.pil) /\ ~Gave(result.strategy.exifread)
             /\ IF args.use_fallback THEN result.strategy.fallback # NotTried
                ELSE result.date = None

Rerun == Done("process_directory") /\ "first" \in DOMAIN args

\* the images a run stamped
Stamped(attempted) ==
    {attempted[i].name : i \in {j \in 1..Len(attempted) : attempted[j].success}}

TimestampsPrinted == {log'[i] : i \in {j \in (Len(log) + 1)..Len(log') : Len(log'[j]) = 3}}

\* the reports get_original_timestamp can produce for an image
ReportsOf(p) == {original_timestamp(p, platform, f) : f \in InfoFiles}

\* C28: on a processor with show_watermark_info, every call of
\* process_single_image assigns _current_timestamp_info the report
\* get_original_timestamp produces for its own image before it asks for the
\* date, nothing changes the field between that and the rendering, and the
\* timestamps _print_watermark_info logs while the image is rendered are the
\* field's: the report of this call for this image, never one left by an
\* image processed before
C28_FreshReport ==
    [][processor.show_watermark_info /\ op = "process_single_image" =>
          /\ pc = "psi_format" /\ pc' = "gdt_check" =>
                processor'.current_timestamp_info \in ReportsOf(image_path)
          /\ pc \in {"gdt_check", "psi_date"} => processor' = processor
          /\ pc = "psi_add" =>
                /\ processor' = processor
                /\ \A t \in TimestampsPrinted :
                      /\ t[3] = processor.current_timestamp_info.dict
                      /\ t[3].file_path = image_path.name]_vars

\* an image has been rendered with its own report logged, by a processor
\* that had already processed another image
C28_Witness ==
    /\ pc = "done"
    /\ op = "process_single_image"
    /\ processor.show_watermark_info
    /\ Cardinality(fs.written) >= 2
    /\ \E i \in 1..Len(log) :
          /\ Len(log[i]) = 3
          /\ log[i][3].file_path = image_path.name
          /\ processor.current_timestamp_info = InfoDict(log[i][3])

====
